---- MODULE Spec2Model ----
(***************************************************************************)
(* A model of the reconciliation state engine of tmux-vcs-sync             *)
(* (src/tmux/state/state.go): the index between tmux sessions and          *)
(* (repository, work unit) names, the display-name policy, and the         *)
(* New / NewSession / RenameSession / PruneSessions operations against a   *)
(* tmux server and a set of repositories.                                  *)
(*                                                                         *)
(* Go strings are modelled as sequences of tokens.  The token ">" is the   *)
(* delimiter of session names; every other token stands for a non-empty    *)
(* substring without a delimiter.  The empty string is <<>>.               *)
(***************************************************************************)
EXTENDS Integers, Sequences, FiniteSets, TLC

\* ------------------------------------------------------------------ bounds

\* Sessions that exist on the server before the engine is built.
MaxInitSessions == 2
\* Session ids the server ever hands out (initial ones included).
MaxSessions == 3
\* Calls of NewSession, RenameSession and PruneSessions during which the
\* server refuses at least one request (a create, a rename, a kill or a name
\* listing).
MaxFaultyCalls == 1
\* Calls of NewSession, RenameSession and PruneSessions on one State.
MaxCalls == 2

\* ------------------------------------------------------------ environment

Delim == ">"

\* Work unit names used as inputs of the operations.
WorkUnits == { <<"a">>, <<"b">> }

\* Display names of the sessions that exist before the engine is built.
InitNameSeq == << <<"a">>, <<"r1", Delim, "a">>, <<"r2", Delim, "b">> >>

InitNames == { InitNameSeq[i] : i \in 1..Len(InitNameSeq) }

\* The registered version control systems, in registration order.
VCSKinds == << <<"git">>, <<"hg">> >>

NoRepo == [vcs |-> <<>>, name |-> <<>>, dir |-> "none"]

\* The repositories of the file system: a repository handle answers VCS().Name(),
\* Name() and RootDir().
Repositories ==
    { [vcs |-> <<"git">>, name |-> <<"r1">>, dir |-> "d1"],
      [vcs |-> <<"git">>, name |-> <<"r2">>, dir |-> "d2"],
      [vcs |-> <<"hg">>,  name |-> <<"r1">>, dir |-> "d3"] }

\* Every repository on disk: the ones above, and a git repository r3 rooted at
\* d3 beside the hg one, so that a lookup in d3 finds two repositories, and a
\* second clone of the git repository r1 rooted at d4.
DiskRepositories ==
    Repositories \cup { [vcs |-> <<"git">>, name |-> <<"r3">>, dir |-> "d3"],
                        [vcs |-> <<"git">>, name |-> <<"r1">>, dir |-> "d4"] }

\* Session paths: the root directories of the repositories and one directory
\* that holds no repository.
Dirs == { r.dir : r \in DiskRepositories } \cup { "d0" }

\* The paths of the sessions that exist before the engine is built.
InitDirs == { "d0", "d1", "d3" }

\* The old names RenameSession is called with: work unit names, and one
\* qualified name whose repository hint the repository need not agree with.
OldNames == WorkUnits \cup { <<"r2", Delim, "a">> }

NoSession == -1

\* ------------------------------------------------------------------ naming

NewRepoName(repo) == [VCS |-> repo.vcs, Repo |-> repo.name]

NewWorkUnitName(repo, workUnitName) ==
    [VCS |-> repo.vcs, Repo |-> repo.name, WorkUnit |-> workUnitName]

RepoNameOf(n) == [VCS |-> n.VCS, Repo |-> n.Repo]

RepoString(n) == n.Repo \o <<Delim>> \o n.WorkUnit

WorkUnitString(n) == n.WorkUnit

\* Index of the first delimiter of s, 0 when there is none.
IndexDelim(s) ==
    IF \E i \in 1..Len(s) : s[i] = Delim
    THEN CHOOSE i \in 1..Len(s) : s[i] = Delim /\ \A j \in 1..(i-1) : s[j] # Delim
    ELSE 0

\* strings.SplitN(s, ">", n) for n >= 1: at most n parts, the last one unsplit.
RECURSIVE SplitN(_, _)
SplitN(s, n) ==
    IF n <= 1 \/ IndexDelim(s) = 0
    THEN << s >>
    ELSE << SubSeq(s, 1, IndexDelim(s) - 1) >>
         \o SplitN(SubSeq(s, IndexDelim(s) + 1, Len(s)), n - 1)

ParseSessionNameWithoutKnownRepository(tmuxSessionName) ==
    LET sp == SplitN(tmuxSessionName, 3) IN
    CASE Len(sp) = 1 -> [VCS |-> <<>>, Repo |-> <<>>, WorkUnit |-> sp[1]]
      [] Len(sp) = 2 -> [VCS |-> <<>>, Repo |-> sp[1], WorkUnit |-> sp[2]]
      [] OTHER       -> [VCS |-> sp[1], Repo |-> sp[2], WorkUnit |-> sp[3]]

\* ParseSessionName when the hints of the display name win over the
\* repository wherever the name carries them.
ParseSessionNameTrustingHints(repo, tmuxSessionName) ==
    LET n == ParseSessionNameWithoutKnownRepository(tmuxSessionName)
        m == NewRepoName(repo)
    IN  [VCS |-> IF n.VCS # <<>> THEN n.VCS ELSE m.VCS,
         Repo |-> IF n.Repo # <<>> THEN n.Repo ELSE m.Repo,
         WorkUnit |-> n.WorkUnit]

ParseSessionName(repo, tmuxSessionName) ==
    LET n == ParseSessionNameWithoutKnownRepository(tmuxSessionName)
        m == NewRepoName(repo)
    IN  IF RepoNameOf(n) # m
        THEN [VCS |-> m.VCS, Repo |-> m.Repo, WorkUnit |-> n.WorkUnit]
        ELSE n

\* ------------------------------------------------------------------- state

VARIABLES
    tmuxSessions,      \* the server: session id -> [name, path, dead]
    nextSessionID,     \* the server's id counter
    constructed,       \* whether New has returned a State
    sessions,          \* State.sessions: the ids listed when the State was built
    sessionsByName,    \* State.sessionsByName: WorkUnitName -> session id
    sessionsByID,      \* State.sessionsByID: session id -> [repo, workUnitName]
    unqualifiedRepos,  \* State.unqualifiedRepos: repo name -> count
    repos,             \* State.repos: RepoName -> repository handle
    unknownSessions,   \* State.unknownSessions: display name -> session id
    failedDirs,        \* the session paths whose lookup in New failed, or
                       \* answered otherwise than with every probe answering
    calls,             \* calls made on the State so far
    faultyCalls,       \* calls so far during which the server refused a request
    last,              \* the last call: its inputs, outcome and terminal calls
    cmd,               \* the running command: its position, inputs and outcome
    probes             \* New's directory probes: tasks, results channel, context

engine == << sessions, sessionsByName, sessionsByID, unqualifiedRepos, repos,
             unknownSessions >>

vars == << tmuxSessions, nextSessionID, constructed, sessions,
           sessionsByName, sessionsByID, unqualifiedRepos, repos,
           unknownSessions, failedDirs, calls, faultyCalls, last, cmd, probes >>

\* The processes around the State: the update command and New's probe tasks.
procs == << cmd, probes >>

\* ----------------------------------------------------------------- helpers

Empty == << >>

Range(f) == { f[x] : x \in DOMAIN f }

\* A Go map read: the zero value when the key is missing.
Get(m, k, zero) == IF k \in DOMAIN m THEN m[k] ELSE zero

Put(m, k, v) == [x \in DOMAIN m \cup {k} |-> IF x = k THEN v ELSE m[x]]

Delete(m, k) == [x \in DOMAIN m \ {k} |-> m[x]]

Live(tm) == { s \in DOMAIN tm : ~tm[s].dead }

\* The record of a call that has made no terminal call yet.
NoCall(op) ==
    [op |-> op, err |-> FALSE,
     created |-> NoSession, createName |-> <<>>, createCalled |-> FALSE,
     primary |-> {}, listing |-> <<>>, cur |-> NoSession, kills |-> <<>>,
     listed |-> FALSE, listOk |-> FALSE, renames |-> {}, again |-> FALSE,
     query |-> <<>>, exists |-> <<>>, found |-> <<>>, errs |-> {}]

\* No command has been started.  form: "update" without an argument,
\* "updateTo" with one, "new", "commit", "rename"; needRepo / needTmux: what
\* the command found it has to change; didRepo / didTmux: what it changed;
\* exit: its exit status; ctor: the call of the work-unit constructor and its
\* outcome; old: the display name of the session a rename started in;
\* exists: the work units each repository listed for the menu; menu: the menu
\* createMenu built.
NoCommand ==
    [pc |-> "idle", form |-> "none", failNoop |-> FALSE, hasCurrentServer |-> FALSE,
     n |-> <<>>, repo |-> NoRepo, workUnit |-> <<>>, sesh |-> NoSession,
     update |-> FALSE, needRepo |-> FALSE, needTmux |-> FALSE,
     didRepo |-> FALSE, didTmux |-> FALSE, err |-> FALSE, exit |-> 0,
     ctor |-> "none", old |-> <<>>, exists |-> <<>>, menu |-> <<>>]

\* New has started no directory probe.  task: the position of the probe task
\* of each session path; outcome: what its lookup returned; results: the
\* buffered channel; wg: the wait group counter; received: the paths whose
\* result the collecting loop has merged, order: in the order it merged them.
NoProbes ==
    [pc |-> "idle", paths |-> {}, task |-> <<>>, outcome |-> <<>>,
     results |-> <<>>, capacity |-> 0, wg |-> 0, closed |-> FALSE,
     received |-> {}, order |-> <<>>, cancelled |-> FALSE, interrupted |-> {}]

\* ------------------------------------------------------- display-name policy

\* SessionName that qualifies only once two repository names are indexed.
SessionNameByCountOnly(unq, n) ==
    IF Cardinality(DOMAIN unq) > 1
    THEN RepoString(n)
    ELSE WorkUnitString(n)

SessionName(unq, n) ==
    IF Cardinality(DOMAIN unq) > 1
       \/ (Cardinality(DOMAIN unq) = 1 /\ Get(unq, n.Repo, 0) = 0)
    THEN RepoString(n)
    ELSE WorkUnitString(n)

\* Sessions.Property(SessionName) on the sessions listed at construction: the
\* server reports the live ones among them.
SessionsProperty(tm, snap) == [s \in snap \cap Live(tm) |-> tm[s].name]

\* Session.Rename: fails on a killed session, and whenever the server refuses.
RenameOk(tm, s, refused) == ~tm[s].dead /\ s \notin refused

\* The rename calls of updateSessionNames, given the listed names.
FixupRenames(tm, names, byName, unq, refused) ==
    { [sesh |-> byName[k], name |-> SessionName(unq, k),
       ok |-> RenameOk(tm, byName[k], refused)] :
        k \in { n \in DOMAIN byName :
                  Get(names, byName[n], <<>>) # SessionName(unq, n) } }

\* The server after a set of rename calls.
Renamed(tm, rs) ==
    [s \in DOMAIN tm |->
        IF \E c \in rs : c.sesh = s /\ c.ok
        THEN [tm[s] EXCEPT !.name =
                 (CHOOSE c \in rs : c.sesh = s /\ c.ok).name]
        ELSE tm[s]]

\* The errors updateSessionNames joins: one for every rename that failed,
\* named by its session.
RenameErrors(rs) == { c.sesh : c \in { r \in rs : ~r.ok } }

\* updateSessionNames that returns at the first rename that fails.
updateSessionNamesUntilFailure(tm, snap, byName, unq, listOk, refused) ==
    LET rs == FixupRenames(tm, SessionsProperty(tm, snap), byName, unq, refused)
    IN  IF ~listOk THEN {}
        ELSE IF \E c \in rs : ~c.ok THEN { CHOOSE c \in rs : ~c.ok }
        ELSE rs

\* updateSessionNames that renames nothing.
updateSessionNamesSkipped(tm, snap, byName, unq, listOk, refused) == {}

\* updateSessionNames on the index (byName, unq): the rename calls it makes.
\* listOk is whether the server answered the name listing.
updateSessionNames(tm, snap, byName, unq, listOk, refused) ==
    IF listOk
    THEN FixupRenames(tm, SessionsProperty(tm, snap), byName, unq, refused)
    ELSE {}

\* What the server can do to one updateSessionNames call: fail the name
\* listing, or answer it and refuse any of the renames that follow.
FixupOutcomes(tm, snap, byName, unq) ==
    { [listOk |-> FALSE, refused |-> {}] } \cup
    { [listOk |-> TRUE, refused |-> r] :
        r \in SUBSET { c.sesh : c \in FixupRenames(tm, SessionsProperty(tm, snap),
                                                   byName, unq, {}) } }

\* Whether the server refused something in an updateSessionNames call.
FixupFaulty(out) == ~out.listOk \/ out.refused # {}

\* ------------------------------------------------------------ construction

\* VersionControlSystem.Repository(dir): the repository of that kind rooted at
\* dir, NoRepo when there is none.
RepositoryAt(vcs, dir) ==
    IF \E r \in DiskRepositories : r.vcs = vcs /\ r.dir = dir
    THEN CHOOSE r \in DiskRepositories : r.vcs = vcs /\ r.dir = dir
    ELSE NoRepo

\* The result of api.MaybeFindRepository when it names only one of several
\* matching repositories in its error.
MaybeFindRepositoryResultNamingOne(found, errs) ==
    CASE Cardinality(found) = 1 ->
             [repo |-> CHOOSE r \in found : TRUE, err |-> FALSE, matches |-> {}]
      [] Cardinality(found) = 0 ->
             [repo |-> NoRepo, err |-> errs > 0, matches |-> {}]
      [] OTHER ->
             [repo |-> NoRepo, err |-> TRUE,
              matches |-> { NewRepoName(CHOOSE r \in found : TRUE) }]

\* The result of api.MaybeFindRepository when every failed probe fails it.
MaybeFindRepositoryResultStrict(found, errs) ==
    CASE errs > 0 -> [repo |-> NoRepo, err |-> TRUE, matches |-> {}]
      [] Cardinality(found) = 1 ->
             [repo |-> CHOOSE r \in found : TRUE, err |-> FALSE, matches |-> {}]
      [] Cardinality(found) = 0 ->
             [repo |-> NoRepo, err |-> FALSE, matches |-> {}]
      [] OTHER ->
             [repo |-> NoRepo, err |-> TRUE,
              matches |-> { NewRepoName(r) : r \in found }]

\* api.MaybeFindRepository: found is the set of repositories the probes
\* yielded, errs the number of probes that failed.  matches: the (VCS, Repo)
\* identities the error message lists.
MaybeFindRepositoryResult(found, errs) ==
    CASE Cardinality(found) = 1 ->
             [repo |-> CHOOSE r \in found : TRUE, err |-> FALSE, matches |-> {}]
      [] Cardinality(found) = 0 ->
             [repo |-> NoRepo, err |-> errs > 0, matches |-> {}]
      [] OTHER ->
             [repo |-> NoRepo, err |-> TRUE,
              matches |-> { NewRepoName(r) : r \in found }]

\* VersionControlSystems.MaybeFindRepository(dir), where probeErr is the set
\* of <<kind, dir>> probes that fail.
FindRepositoryInDir(dir, probeErr) ==
    LET kinds == { VCSKinds[i] : i \in 1..Len(VCSKinds) }
        bad   == { v \in kinds : <<v, dir>> \in probeErr }
        found == { RepositoryAt(v, dir) : v \in kinds \ bad } \ { NoRepo }
    IN  MaybeFindRepositoryResult(found, Cardinality(bad))

\* The sessions New indexes if it gives the scan up at the first failed lookup.
ResolvedUnlessAnyError(tm, listed, probe) ==
    IF \E d \in DOMAIN probe : probe[d].err
    THEN {}
    ELSE { s \in listed : probe[tm[s].path].repo # NoRepo }

\* The index New builds from the listed sessions `listed`, given the probe
\* result of every session path: the sessions that land in sessionsByName /
\* sessionsByID and the ones that land in unknownSessions.
Resolved(tm, listed, probe) ==
    { s \in listed : ~probe[tm[s].path].err /\ probe[tm[s].path].repo # NoRepo }

Unresolved(tm, listed, probe) ==
    { s \in listed : ~probe[tm[s].path].err /\ probe[tm[s].path].repo = NoRepo }

ParsedName(tm, probe, s) == ParseSessionName(probe[tm[s].path].repo, tm[s].name)

\* The values sessionsByName can take: the results are merged in the order
\* the probes finish and the sessions of one result in map order, so when two
\* sessions parse to one WorkUnitName either of them may be the one kept.
NewSessionsByName(tm, listed, probe) ==
    LET res  == Resolved(tm, listed, probe)
        keys == { ParsedName(tm, probe, s) : s \in res }
    IN  { f \in [keys -> res] : \A k \in keys : ParsedName(tm, probe, f[k]) = k }

NewSessionsByID(tm, listed, probe) ==
    [s \in Resolved(tm, listed, probe) |->
        [repo |-> probe[tm[s].path].repo,
         workUnitName |-> ParsedName(tm, probe, s).WorkUnit]]

NewUnqualifiedRepos(tm, listed, probe) ==
    LET res == Resolved(tm, listed, probe) IN
    [r \in { ParsedName(tm, probe, s).Repo : s \in res } |->
        Cardinality({ s \in res : ParsedName(tm, probe, s).Repo = r })]

\* One representative per RepoName among the repositories the probes found.
NewRepos(tm, listed, probe) ==
    LET found == { probe[tm[s].path].repo : s \in Resolved(tm, listed, probe) }
        keys  == { NewRepoName(r) : r \in found }
    IN  { f \in [keys -> found] : \A k \in keys : NewRepoName(f[k]) = k }

NewUnknownSessions(tm, listed, probe) ==
    LET un   == Unresolved(tm, listed, probe)
        keys == { tm[s].name : s \in un }
    IN  { f \in [keys -> un] : \A k \in keys : tm[f[k]].name = k }

\* ------------------------------------------------------------------- Init

\* The servers the engine can be built over: sessions 0..k-1 with distinct
\* display names.  Renumbering the sessions of a server changes nothing the
\* engine does, so one numbering of each server is kept: by display name.
NameRank(name) == CHOOSE i \in 1..Len(InitNameSeq) : InitNameSeq[i] = name

InitServers ==
    UNION { { tm \in [0..(k-1) -> [name : InitNames, path : InitDirs, dead : {FALSE}]] :
                \A i, j \in 0..(k-1) :
                    i < j => NameRank(tm[i].name) < NameRank(tm[j].name) } :
            k \in 0..MaxInitSessions }

Init ==
    /\ tmuxSessions \in InitServers
    /\ nextSessionID = Cardinality(DOMAIN tmuxSessions)
    /\ constructed = FALSE
    /\ sessions = {}
    /\ sessionsByName = Empty
    /\ sessionsByID = Empty
    /\ unqualifiedRepos = Empty
    /\ repos = Empty
    /\ unknownSessions = Empty
    /\ failedDirs = {}
    /\ calls = 0
    /\ faultyCalls = 0
    /\ last = NoCall("none")
    /\ cmd = NoCommand
    /\ probes = NoProbes

\* ---------------------------------------------------------------- actions

\* New(ctx, srv, vcs).  queryOk: ListSessions and Sessions.Properties both
\* answered; probeErr: the <<kind, path>> probes that fail.
\* New returns an error: the server could not be queried (state.go 38-55).
NewFails ==
    /\ last' = [NoCall("New") EXCEPT !.err = TRUE, !.listed = TRUE]
    /\ UNCHANGED << tmuxSessions, nextSessionID, constructed,
                    engine, failedDirs, calls, faultyCalls >>

\* New returns the State merged from the probe results (state.go 91-112):
\* probe gives the lookup result of every session path.
NewReturns(listed, probe) ==
    /\ constructed' = TRUE
    /\ sessions' = listed
    /\ sessionsByName' \in NewSessionsByName(tmuxSessions, listed, probe)
    /\ sessionsByID' = NewSessionsByID(tmuxSessions, listed, probe)
    /\ unqualifiedRepos' = NewUnqualifiedRepos(tmuxSessions, listed, probe)
    /\ repos' \in NewRepos(tmuxSessions, listed, probe)
    /\ unknownSessions' \in NewUnknownSessions(tmuxSessions, listed, probe)
    /\ failedDirs' = { d \in DOMAIN probe : probe[d].err
                           \/ probe[d] # FindRepositoryInDir(d, {}) }
    /\ last' = [NoCall("New") EXCEPT !.listed = TRUE, !.listOk = TRUE]
    /\ UNCHANGED << tmuxSessions, nextSessionID, calls, faultyCalls >>

New ==
    /\ ~constructed
    /\ \E queryOk \in BOOLEAN :
        IF ~queryOk
        THEN NewFails
        ELSE LET listed == Live(tmuxSessions)
                 paths  == { tmuxSessions[s].path : s \in listed }
                 kinds  == { VCSKinds[i] : i \in 1..Len(VCSKinds) }
             IN  \E probeErr \in SUBSET (kinds \X paths) :
                 NewReturns(listed, [d \in paths |-> FindRepositoryInDir(d, probeErr)])

\* NewSession's insertions without the count of state.go 182.
InsertedUncounted(idx, name, repo, sesh) ==
    [byName |-> Put(idx.byName, name, sesh),
     byID   |-> Put(idx.byID, sesh, [repo |-> repo, workUnitName |-> name.WorkUnit]),
     unq    |-> idx.unq,
     repos  |-> Put(idx.repos, RepoNameOf(name), repo)]

\* NewSession's insertions without the repos entry of state.go 183.
InsertedWithoutRepo(idx, name, repo, sesh) ==
    [byName |-> Put(idx.byName, name, sesh),
     byID   |-> Put(idx.byID, sesh, [repo |-> repo, workUnitName |-> name.WorkUnit]),
     unq    |-> Put(idx.unq, name.Repo, Get(idx.unq, name.Repo, 0) + 1),
     repos  |-> idx.repos]

\* The index after NewSession's insertions (state.go 180-183).
Inserted(idx, name, repo, sesh) ==
    [byName |-> Put(idx.byName, name, sesh),
     byID   |-> Put(idx.byID, sesh, [repo |-> repo, workUnitName |-> name.WorkUnit]),
     unq    |-> Put(idx.unq, name.Repo, Get(idx.unq, name.Repo, 0) + 1),
     repos  |-> Put(idx.repos, RepoNameOf(name), repo)]

\* RenameSession's move without the delete of state.go 211.
MovedKeepingOld(idx, oldName, newName, repo, sesh) ==
    [byName |-> Put(idx.byName, newName, sesh),
     byID   |-> Put(idx.byID, sesh, [repo |-> repo, workUnitName |-> newName.WorkUnit]),
     unq    |-> idx.unq,
     repos  |-> idx.repos]

\* The index after RenameSession's move (state.go 211-213).
Moved(idx, oldName, newName, repo, sesh) ==
    [byName |-> Put(Delete(idx.byName, oldName), newName, sesh),
     byID   |-> Put(idx.byID, sesh, [repo |-> repo, workUnitName |-> newName.WorkUnit]),
     unq    |-> idx.unq,
     repos  |-> idx.repos]

\* PruneSessions' removal without the delete of state.go 262.
RemovedKeepingID(idx, n, sesh) ==
    LET count == Get(idx.unq, n.Repo, 0) - 1 IN
    [byName |-> Delete(idx.byName, n),
     byID   |-> idx.byID,
     unq    |-> IF count = 0 THEN Delete(idx.unq, n.Repo)
                ELSE Put(idx.unq, n.Repo, count),
     repos  |-> IF count = 0 THEN Delete(idx.repos, RepoNameOf(n))
                ELSE idx.repos]

\* The index after PruneSessions removed one session (state.go 261-267).
Removed(idx, n, sesh) ==
    LET count == Get(idx.unq, n.Repo, 0) - 1 IN
    [byName |-> Delete(idx.byName, n),
     byID   |-> Delete(idx.byID, sesh),
     unq    |-> IF count = 0 THEN Delete(idx.unq, n.Repo)
                ELSE Put(idx.unq, n.Repo, count),
     repos  |-> IF count = 0 THEN Delete(idx.repos, RepoNameOf(n))
                ELSE idx.repos]

Index == [byName |-> sessionsByName, byID |-> sessionsByID,
          unq |-> unqualifiedRepos, repos |-> repos]

SetIndex(idx) ==
    /\ sessionsByName' = idx.byName
    /\ sessionsByID' = idx.byID
    /\ unqualifiedRepos' = idx.unq
    /\ repos' = idx.repos

\* A call that fails before it changes anything.
Fails(call) ==
    /\ last' = [call EXCEPT !.err = TRUE]
    /\ UNCHANGED << tmuxSessions, nextSessionID, constructed, engine,
                    failedDirs >>

\* One more call on the State; the server may refuse requests in at most
\* MaxFaultyCalls of them.
Faults(faulty) ==
    /\ calls' = calls + 1
    /\ faulty => faultyCalls < MaxFaultyCalls
    /\ faultyCalls' = IF faulty THEN faultyCalls + 1 ELSE faultyCalls

\* The end of an operation that returns the error of updateSessionNames.
FixupAndReturnError(call, tm1, idx, out) ==
    LET rs == updateSessionNames(tm1, sessions, idx.byName, idx.unq,
                                 out.listOk, out.refused)
    IN  /\ tmuxSessions' = Renamed(tm1, rs)
        /\ SetIndex(idx)
        /\ last' = [call EXCEPT !.listed = TRUE, !.listOk = out.listOk,
                                !.renames = rs, !.err = FixupFaulty(out),
                                !.errs = RenameErrors(rs)]
        /\ UNCHANGED << constructed, sessions, unknownSessions, failedDirs >>

\* The end of NewSession, RenameSession and PruneSessions: updateSessionNames
\* on the index idx and the server tm1, whose error is logged and dropped.
FixupAndReturn(call, tm1, idx, out) ==
    LET rs == updateSessionNames(tm1, sessions, idx.byName, idx.unq,
                                 out.listOk, out.refused)
    IN  /\ tmuxSessions' = Renamed(tm1, rs)
        /\ SetIndex(idx)
        /\ last' = [call EXCEPT !.listed = TRUE, !.listOk = out.listOk,
                                !.renames = rs, !.errs = RenameErrors(rs)]
        /\ UNCHANGED << constructed, sessions, unknownSessions, failedDirs >>

\* NewSession once the work unit is known to have no session: create the
\* session, index it, fix the display names up (state.go 174-187).
CreateAndIndex(repo, workUnitName) ==
    LET name == NewWorkUnitName(repo, workUnitName)
        n    == SessionName(unqualifiedRepos, name)
        call == [NoCall("NewSession") EXCEPT !.createCalled = TRUE, !.createName = n]
    IN
    /\ nextSessionID < MaxSessions
    /\ \E createOk \in BOOLEAN :
       IF ~createOk
       THEN Fails(call) /\ Faults(TRUE)
       ELSE LET sesh == nextSessionID
                tm1  == [s \in DOMAIN tmuxSessions \cup {sesh} |->
                           IF s = sesh
                           THEN [name |-> n, path |-> repo.dir, dead |-> FALSE]
                           ELSE tmuxSessions[s]]
                idx  == Inserted(Index, name, repo, sesh)
            IN  \E out \in FixupOutcomes(tm1, sessions, idx.byName, idx.unq) :
                /\ FixupAndReturn([call EXCEPT !.created = sesh], tm1, idx, out)
                /\ nextSessionID' = nextSessionID + 1
                /\ Faults(FixupFaulty(out))

\* NewSession without the already-exists check of state.go 170-172.
NewSessionUnchecked(repo, workUnitName) ==
    /\ constructed
    /\ calls < MaxCalls
    /\ CreateAndIndex(repo, workUnitName)

\* NewSession(ctx, repo, workUnitName).
NewSession(repo, workUnitName) ==
    /\ constructed
    /\ calls < MaxCalls
    /\ IF NewWorkUnitName(repo, workUnitName) \in DOMAIN sessionsByName
       THEN Fails(NoCall("NewSession")) /\ Faults(FALSE)
       ELSE CreateAndIndex(repo, workUnitName)

\* RenameSession once both names are checked: rename the session, and when
\* the server accepts, move the index entry to idxTo and fix the display
\* names up; when it refuses, return the error over the index idxErr
\* (state.go 207-218).
RenameThenIndex(repo, old, new, idxErr, idxTo) ==
    LET oldName == ParseSessionName(repo, old)
        newName == NewWorkUnitName(repo, new)
        call    == NoCall("RenameSession")
        sesh    == sessionsByName[oldName]
        want    == SessionName(unqualifiedRepos, newName)
    IN  \E refused1 \in SUBSET {sesh} :
        LET first == [sesh |-> sesh, name |-> want,
                      ok |-> RenameOk(tmuxSessions, sesh, refused1)]
        IN
        IF ~first.ok
        THEN /\ last' = [call EXCEPT !.err = TRUE, !.primary = {first}]
             /\ SetIndex(idxErr)
             /\ Faults(TRUE)
             /\ UNCHANGED << tmuxSessions, nextSessionID, constructed, sessions,
                             unknownSessions, failedDirs >>
        ELSE LET tm1 == Renamed(tmuxSessions, {first}) IN
             \E out \in FixupOutcomes(tm1, sessions, idxTo.byName, idxTo.unq) :
             /\ FixupAndReturn([call EXCEPT !.primary = {first}], tm1, idxTo, out)
             /\ Faults(FixupFaulty(out))
             /\ UNCHANGED nextSessionID

\* RenameSession that moves the index entry before it asks the server.
RenameAndMoveEagerly(repo, old, new) ==
    LET moved == Moved(Index, ParseSessionName(repo, old),
                       NewWorkUnitName(repo, new), repo,
                       sessionsByName[ParseSessionName(repo, old)])
    IN  RenameThenIndex(repo, old, new, moved, moved)

\* The rename and the index move of RenameSession (state.go 207-218).
RenameAndMove(repo, old, new) ==
    RenameThenIndex(repo, old, new, Index,
                    Moved(Index, ParseSessionName(repo, old),
                          NewWorkUnitName(repo, new), repo,
                          sessionsByName[ParseSessionName(repo, old)]))

\* RenameSession without the already-exists check of state.go 203-205.
RenameSessionOverwriting(repo, old, new) ==
    /\ constructed
    /\ calls < MaxCalls
    /\ IF ParseSessionName(repo, old) \notin DOMAIN sessionsByName
       THEN Fails(NoCall("RenameSession")) /\ Faults(FALSE)
       ELSE RenameAndMove(repo, old, new)

\* RenameSession(ctx, repo, old, new).
RenameSession(repo, old, new) ==
    /\ constructed
    /\ calls < MaxCalls
    /\ IF \/ ParseSessionName(repo, old) \notin DOMAIN sessionsByName
          \/ NewWorkUnitName(repo, new) \in DOMAIN sessionsByName
       THEN Fails(NoCall("RenameSession")) /\ Faults(FALSE)
       ELSE RenameAndMove(repo, old, new)

\* What Repository.List can answer: a set of work units, or an error.
ListOutcomes ==
    { [ok |-> TRUE, wus |-> w] : w \in SUBSET WorkUnits }
        \cup { [ok |-> FALSE, wus |-> {}] }

\* validWorkUnits and errRepos of PruneSessions (state.go 224-236).
ValidWorkUnits(rp, listing) ==
    UNION { { NewWorkUnitName(rp[n], wu) : wu \in listing[n].wus } :
            n \in { m \in DOMAIN rp : listing[m].ok } }

\* errRepos left empty.
ErrReposNone(rp, listing) == {}

ErrRepos(rp, listing) == { n \in DOMAIN rp : ~listing[n].ok }

\* The work units to remove, without the errRepos check of state.go 240-242.
InvalidNamesIgnoringErrRepos(byName, rp, listing) ==
    { n \in DOMAIN byName : n \notin ValidWorkUnits(rp, listing) }

\* The work units whose sessions PruneSessions removes (state.go 237-247).
InvalidNames(byName, rp, listing) ==
    { n \in DOMAIN byName :
        /\ RepoNameOf(n) \notin ErrRepos(rp, listing)
        /\ n \notin ValidWorkUnits(rp, listing) }

\* The kill orders without the sort of state.go 248-253.
KillOrdersUnsorted(toRemove, cur) ==
    { o \in [1..Cardinality(toRemove) -> toRemove] :
        \A i, j \in DOMAIN o : i # j => o[i] # o[j] }

\* The orders in which the sessions toRemove can be killed: any order when the
\* process runs outside tmux, and otherwise the current session after the
\* others (state.go 248-253).
KillOrders(toRemove, cur) ==
    { o \in [1..Cardinality(toRemove) -> toRemove] :
        /\ \A i, j \in DOMAIN o : i # j => o[i] # o[j]
        /\ cur # NoSession =>
              \A i, j \in DOMAIN o : (o[i] = cur /\ o[j] # cur) => j < i }

\* The index after the sessions order[1..k] were removed one by one.
RECURSIVE Pruned(_, _, _)
Pruned(idx, order, k) ==
    IF k = 0
    THEN idx
    ELSE LET before == Pruned(idx, order, k - 1)
             n == CHOOSE m \in DOMAIN idx.byName : idx.byName[m] = order[k]
         IN  Removed(before, n, order[k])

\* Session.Kill: fails on a killed session, and whenever the server refuses.
KillOk(tm, s, refused) == ~tm[s].dead /\ s \notin refused

Killed(tm, dead) ==
    [s \in DOMAIN tm |-> IF s \in dead THEN [tm[s] EXCEPT !.dead = TRUE] ELSE tm[s]]

\* PruneSessions(ctx), where listing[n] is what List answers for repos[n] and
\* cur is what tmux.MaybeCurrentSession answers, as far as the sort reads it:
\* the session the process runs in when that is one of toRemove, and
\* NoSession outside tmux or in a session that stays.
PruneSessions(listing, cur) ==
    /\ constructed
    /\ calls < MaxCalls
    /\ LET invalid  == InvalidNames(sessionsByName, repos, listing)
           toRemove == { sessionsByName[n] : n \in invalid }
           call     == [NoCall("PruneSessions") EXCEPT !.listing = listing, !.cur = cur]
       IN
       /\ cur \in toRemove \cup { NoSession }
       /\ \E order \in KillOrders(toRemove, cur),
          refusedKill \in { {} } \cup { {s} : s \in toRemove } :
          LET bad   == { i \in DOMAIN order : ~KillOk(tmuxSessions, order[i], refusedKill) }
              \* the kills that were issued: up to and including the first failure
              upto  == IF bad = {} THEN Len(order)
                       ELSE CHOOSE i \in bad : \A j \in bad : i <= j
              done  == IF bad = {} THEN Len(order) ELSE upto - 1
              kills == [i \in 1..upto |-> [sesh |-> order[i], ok |-> i <= done]]
              tm1   == Killed(tmuxSessions, { order[i] : i \in 1..done })
              idx   == Pruned(Index, order, done)
          IN
          IF bad # {}
          THEN /\ tmuxSessions' = tm1
               /\ SetIndex(idx)
               /\ last' = [call EXCEPT !.err = TRUE, !.kills = kills]
               /\ Faults(TRUE)
               /\ UNCHANGED << nextSessionID, constructed, sessions,
                               unknownSessions, failedDirs >>
          ELSE \E out \in FixupOutcomes(tm1, sessions, idx.byName, idx.unq) :
               /\ FixupAndReturn([call EXCEPT !.kills = kills], tm1, idx, out)
               /\ Faults(FixupFaulty(out))
               /\ UNCHANGED nextSessionID

\* What the repositories of repos can answer to List, told apart as far as
\* PruneSessions reads the answers: by the work units that have a session.
Listings ==
    { l \in [DOMAIN repos -> ListOutcomes] :
        \A n \in DOMAIN repos :
            l[n].wus \subseteq { m.WorkUnit : m \in { k \in DOMAIN sessionsByName :
                                                        RepoNameOf(k) = n } } }

Next ==
    \/ New /\ UNCHANGED procs
    \/ \E repo \in Repositories, w \in WorkUnits :
          NewSession(repo, w) /\ UNCHANGED procs
    \/ \E repo \in Repositories, old \in OldNames, new \in WorkUnits :
          RenameSession(repo, old, new) /\ UNCHANGED procs
    \/ \E listing \in Listings,
          cur \in Range(sessionsByName) \cup { NoSession } :
          PruneSessions(listing, cur) /\ UNCHANGED procs

Spec == Init /\ [][Next]_vars

\* updateSessionNames(ctx) called on its own.  `again` records that the call
\* before it was an updateSessionNames call too, one that the server refused
\* nothing of.
UpdateSessionNames ==
    /\ constructed
    /\ ~last.again
    /\ \E out \in FixupOutcomes(tmuxSessions, sessions, sessionsByName,
                                unqualifiedRepos) :
       /\ FixupAndReturn([NoCall("updateSessionNames") EXCEPT
                            !.err = FixupFaulty(out),
                            !.again = (last.op = "updateSessionNames" /\ ~last.err)],
                         tmuxSessions, Index, out)
       /\ FixupFaulty(out) => faultyCalls < MaxFaultyCalls
       /\ faultyCalls' = IF FixupFaulty(out) THEN faultyCalls + 1 ELSE faultyCalls
       /\ UNCHANGED << nextSessionID, calls >>

\* The engine with updateSessionNames callable on its own.
NextFixup == Next \/ (UpdateSessionNames /\ UNCHANGED procs)

SpecFixup == Init /\ [][NextFixup]_vars

\* ---------------------------------------------------------------- claims

\* What the last call asked of the server.
TerminalCalls ==
    (IF last.createCalled THEN 1 ELSE 0) + Cardinality(last.primary)
    + Len(last.kills) + (IF last.listed THEN 1 ELSE 0) + Cardinality(last.renames)

\* The server refused nothing during the last call.
NoRefusal ==
    /\ last.createCalled => last.created # NoSession
    /\ \A c \in last.primary \cup last.renames : c.ok
    /\ \A i \in DOMAIN last.kills : last.kills[i].ok
    /\ last.listed => last.listOk

\* C1: after New and after every later call, sessionsByName and sessionsByID
\* agree in both directions: every (n, s) of sessionsByName has sessionsByID[s]
\* equal to (repository of n, n.WorkUnit), and every entry of sessionsByID
\* names a WorkUnitName that sessionsByName maps to that session.
C1_IndexesAgree ==
    constructed =>
        /\ \A n \in DOMAIN sessionsByName :
              /\ sessionsByName[n] \in DOMAIN sessionsByID
              /\ NewWorkUnitName(sessionsByID[sessionsByName[n]].repo,
                                 sessionsByID[sessionsByName[n]].workUnitName) = n
        /\ \A id \in DOMAIN sessionsByID :
              LET n == NewWorkUnitName(sessionsByID[id].repo,
                                       sessionsByID[id].workUnitName)
              IN  n \in DOMAIN sessionsByName /\ sessionsByName[n] = id

\* The values sessionsByName can take in a State built now by New over the
\* same server and the same repository kinds, every probe answering.
FreshSessionsByName ==
    LET listed == Live(tmuxSessions)
        paths  == { tmuxSessions[s].path : s \in listed }
        probe  == [d \in paths |-> FindRepositoryInDir(d, {})]
    IN  NewSessionsByName(tmuxSessions, listed, probe)

\* C2: with no outside change to the server, after any sequence of calls a
\* fresh State built by New over the same server has the same sessionsByName
\* as the State in memory (built with every probe answering).
C2_FreshEngineSameIndex ==
    (constructed /\ failedDirs = {}) =>
        \A f \in FreshSessionsByName : f = sessionsByName

\* C3: after New returns, every session the server listed is a value of
\* exactly one of sessionsByName and unknownSessions, whatever the outcome of
\* the repository probe of its directory.
C3_ListedSessionInExactlyOneMap ==
    (constructed /\ last.op = "New") =>
        \A s \in sessions :
            (s \in Range(sessionsByName)) # (s \in Range(unknownSessions))

\* The display name the server shows for session s.
Shown(tm, s) == tm[s].name

\* The sessions PruneSessions has to kill under listing: the indexed sessions
\* whose repository answered List without their work unit.
MissingSessions(listing) ==
    { sessionsByName[n] :
        n \in { m \in DOMAIN sessionsByName :
                  /\ RepoNameOf(m) \in DOMAIN repos
                  /\ listing[RepoNameOf(m)].ok
                  /\ m.WorkUnit \notin listing[RepoNameOf(m)].wus } }

\* C4: when every kill succeeds, PruneSessions kills exactly the sessions of
\* sessionsByName whose work unit is missing from the list of a repository
\* whose listing succeeded; every other session of sessionsByName stays alive
\* and indexed, and no session of unknownSessions is killed.
C4_KillsExactlyMissing ==
    [][(/\ last'.op = "PruneSessions"
        /\ calls' = calls + 1
        /\ \A i \in DOMAIN last'.kills : last'.kills[i].ok)
       =>
       LET killed == { last'.kills[i].sesh : i \in DOMAIN last'.kills } IN
       /\ killed = MissingSessions(last'.listing)
       /\ \A s \in killed : tmuxSessions'[s].dead
       /\ \A n \in DOMAIN sessionsByName :
             sessionsByName[n] \notin killed =>
                 /\ n \in DOMAIN sessionsByName'
                 /\ sessionsByName'[n] = sessionsByName[n]
                 /\ sessionsByName[n] \in DOMAIN sessionsByID'
                 /\ ~tmuxSessions'[sessionsByName[n]].dead
       /\ unknownSessions' = unknownSessions
       /\ \A s \in Range(unknownSessions) :
             s \notin killed /\ tmuxSessions'[s].dead = tmuxSessions[s].dead
      ]_vars

C4_Witness ==
    /\ last.op = "PruneSessions"
    /\ ~last.err
    /\ Len(last.kills) >= 1
    /\ \A i \in DOMAIN last.kills : last.kills[i].ok
    /\ sessionsByName # Empty
    /\ unknownSessions # Empty

OneRepoUnqualified ==
    /\ sessionsByName # Empty
    /\ \A n, m \in DOMAIN sessionsByName : n.Repo = m.Repo
    /\ \A n \in DOMAIN sessionsByName :
          Shown(tmuxSessions, sessionsByName[n]) = WorkUnitString(n)

\* After the step every session of sessionsByName shows repo>workUnit.
AllQualifiedAfter ==
    \A n \in DOMAIN sessionsByName' :
        Shown(tmuxSessions', sessionsByName'[n]) = RepoString(n)

TwoReposQualified ==
    /\ Cardinality({ n.Repo : n \in DOMAIN sessionsByName }) = 2
    /\ \A n \in DOMAIN sessionsByName :
          Shown(tmuxSessions, sessionsByName[n]) = RepoString(n)

\* The step removes every session of one unqualified repo name.
RemovesOneRepo ==
    \E n \in DOMAIN sessionsByName :
        \A m \in DOMAIN sessionsByName' : m.Repo # n.Repo

\* C7: if sessions of exactly two unqualified repo names are indexed with
\* qualified names and PruneSessions removes every session of one of them,
\* then when it returns (the server having refused nothing) every remaining
\* indexed session shows its unqualified name, the work unit alone.
C7_LastRepoUnqualifiesAll ==
    [][(/\ TwoReposQualified
        /\ last'.op = "PruneSessions"
        /\ calls' = calls + 1
        /\ ~last'.err
        /\ NoRefusal'
        /\ RemovesOneRepo)
       =>
       \A n \in DOMAIN sessionsByName' :
           Shown(tmuxSessions', sessionsByName'[n]) = WorkUnitString(n)
      ]_vars

\* Every session of sessionsByName shows SessionName of its WorkUnitName.
AllShowSessionName ==
    \A n \in DOMAIN sessionsByName :
        Shown(tmuxSessions, sessionsByName[n]) = SessionName(unqualifiedRepos, n)

C9_SecondFixupRenamesNothing ==
    (last.op = "updateSessionNames" /\ last.again) => last.renames = {}

\* C10: when sessionsByName has an entry for NewWorkUnitName(repo, w),
\* NewSession(repo, w) returns an error, asks nothing of the server, and
\* leaves every index structure and every session of the server as it was.
C10_ExistingWorkUnitRejected ==
    [][\A repo \in Repositories, w \in WorkUnits :
          (/\ NewWorkUnitName(repo, w) \in DOMAIN sessionsByName
           /\ NewSession(repo, w))
          =>
          /\ last'.err
          /\ TerminalCalls' = 0
          /\ UNCHANGED << engine, tmuxSessions, nextSessionID >>
      ]_vars

C10_Witness ==
    /\ last.op = "NewSession"
    /\ last.err
    /\ TerminalCalls = 0
    /\ sessionsByName # Empty

\* C11: RenameSession(repo, old, new) returns an error when no session is
\* indexed under ParseSessionName(repo, old) or one is already indexed under
\* NewWorkUnitName(repo, new); it then issues no terminal rename, and the
\* index and every display name stay as they were.
C11_RenameRejected ==
    [][\A repo \in Repositories, old \in OldNames, new \in WorkUnits :
          (/\ last'.op = "RenameSession"
           /\ calls' = calls + 1
           /\ \/ ParseSessionName(repo, old) \notin DOMAIN sessionsByName
              \/ NewWorkUnitName(repo, new) \in DOMAIN sessionsByName
           /\ RenameSession(repo, old, new))
          =>
          /\ last'.err
          /\ TerminalCalls' = 0
          /\ UNCHANGED << engine, tmuxSessions >>
      ]_vars

C11_Witness ==
    /\ last.op = "RenameSession"
    /\ last.err
    /\ TerminalCalls = 0
    /\ Cardinality(DOMAIN sessionsByName) >= 2

\* C12: when the create call of NewSession or the rename call of
\* RenameSession fails, the operation returns an error and sessionsByName,
\* sessionsByID, unqualifiedRepos and repos are as they were before the call.
C12_FailedPrimaryLeavesIndex ==
    [][(/\ calls' = calls + 1
        /\ \/ /\ last'.op = "NewSession"
              /\ last'.createCalled
              /\ last'.created = NoSession
           \/ /\ last'.op = "RenameSession"
              /\ \E c \in last'.primary : ~c.ok)
       =>
       /\ last'.err
       /\ UNCHANGED << sessionsByName, sessionsByID, unqualifiedRepos, repos >>
      ]_vars

C12_Witness ==
    /\ last.op = "RenameSession"
    /\ last.err
    /\ \E c \in last.primary : ~c.ok
    /\ sessionsByName # Empty

\* The sessions the last call killed.
KilledSessions ==
    { last.kills[i].sesh : i \in { j \in DOMAIN last.kills : last.kills[j].ok } }

\* C13: when a kill fails, PruneSessions returns the error and issues no
\* further kill; the sessions it killed before stay removed from
\* sessionsByName, sessionsByID and the counts of unqualifiedRepos, and the
\* session whose kill failed and the candidates after it stay indexed as they
\* were.
C13_FailedKillKeepsEarlierRemovals ==
    [][(/\ last'.op = "PruneSessions"
        /\ calls' = calls + 1
        /\ \E i \in DOMAIN last'.kills : ~last'.kills[i].ok)
       =>
       LET done      == KilledSessions'
           doneNames == { n \in DOMAIN sessionsByName : sessionsByName[n] \in done }
       IN
       /\ last'.err
       /\ \A i \in DOMAIN last'.kills : ~last'.kills[i].ok => i = Len(last'.kills)
       /\ \A s \in done :
             /\ tmuxSessions'[s].dead
             /\ s \notin Range(sessionsByName')
             /\ s \notin DOMAIN sessionsByID'
       /\ \A n \in doneNames : n \notin DOMAIN sessionsByName'
       /\ \A r \in DOMAIN unqualifiedRepos :
             Get(unqualifiedRepos', r, 0) =
                 unqualifiedRepos[r] - Cardinality({ n \in doneNames : n.Repo = r })
       /\ \A n \in DOMAIN sessionsByName \ doneNames :
             /\ n \in DOMAIN sessionsByName'
             /\ sessionsByName'[n] = sessionsByName[n]
             /\ sessionsByName[n] \in DOMAIN sessionsByID'
             /\ sessionsByID'[sessionsByName[n]] = sessionsByID[sessionsByName[n]]
             /\ ~tmuxSessions'[sessionsByName[n]].dead
       /\ MissingSessions(last'.listing) \ done \subseteq Range(sessionsByName')
       /\ MissingSessions(last'.listing) \ done # {}
      ]_vars

C13_Witness ==
    /\ last.op = "PruneSessions"
    /\ last.err
    /\ Len(last.kills) >= 2
    /\ last.kills[1].ok
    /\ ~last.kills[2].ok
    /\ last.kills[2].sesh \in Range(sessionsByName)

\* C14: when List fails for a repository, PruneSessions kills none of the
\* sessions indexed under its RepoName, still removes the sessions the other
\* repositories no longer list, and returns no error for the failed listing.
C14_FailedListingSparesRepository ==
    [][(/\ last'.op = "PruneSessions"
        /\ calls' = calls + 1
        /\ \E r \in DOMAIN last'.listing : ~last'.listing[r].ok)
       =>
       LET tried  == { last'.kills[i].sesh : i \in DOMAIN last'.kills }
           spared == { sessionsByName[n] :
                        n \in { m \in DOMAIN sessionsByName :
                                  /\ RepoNameOf(m) \in DOMAIN last'.listing
                                  /\ ~last'.listing[RepoNameOf(m)].ok } }
       IN
       /\ tried \cap spared = {}
       /\ \A s \in spared :
             s \in Range(sessionsByName') /\ ~tmuxSessions'[s].dead
       /\ (\A i \in DOMAIN last'.kills : last'.kills[i].ok) =>
             /\ ~last'.err
             /\ tried = MissingSessions(last'.listing)
      ]_vars

C14_Witness ==
    /\ last.op = "PruneSessions"
    /\ ~last.err
    /\ Len(last.kills) >= 1
    /\ \E n \in DOMAIN sessionsByName :
          /\ RepoNameOf(n) \in DOMAIN last.listing
          /\ ~last.listing[RepoNameOf(n)].ok

\* C15: NewSession, RenameSession and PruneSessions return success when
\* their own terminal actions succeeded although the updateSessionNames step
\* after them fails, and they keep the index update they made.
C15_FixupErrorNotReturned ==
    [][(/\ calls' = calls + 1
        /\ last'.op \in { "NewSession", "RenameSession", "PruneSessions" }
        /\ last'.listed
        /\ ~last'.listOk \/ \E c \in last'.renames : ~c.ok)
       =>
       /\ ~last'.err
       /\ last'.op = "NewSession" =>
             /\ last'.created \in Range(sessionsByName')
             /\ last'.created \in DOMAIN sessionsByID'
       /\ last'.op = "RenameSession" =>
             \A c \in last'.primary :
                 /\ c.ok
                 /\ \E n \in DOMAIN sessionsByName' \ DOMAIN sessionsByName :
                       sessionsByName'[n] = c.sesh
       /\ last'.op = "PruneSessions" =>
             \A i \in DOMAIN last'.kills :
                 /\ last'.kills[i].ok
                 /\ last'.kills[i].sesh \notin DOMAIN sessionsByID'
                 /\ last'.kills[i].sesh \notin Range(sessionsByName')
      ]_vars

C15_Witness ==
    /\ last.op = "PruneSessions"
    /\ ~last.err
    /\ last.listed
    /\ ~last.listOk
    /\ Len(last.kills) >= 1

\* C16: when the work unit has no entry and the create succeeds, NewSession
\* returns the created session; afterwards sessionsByName maps
\* NewWorkUnitName(repo, w) to it, sessionsByID maps its id to (repo, w),
\* unqualifiedRepos[repo name] is one larger, repos holds repo under its
\* RepoName, and the session started in the repository's root directory.
C16_NewSessionIndexesCreatedSession ==
    [][\A repo \in Repositories, w \in WorkUnits :
          (/\ last'.op = "NewSession"
           /\ last'.created # NoSession
           /\ calls' = calls + 1
           /\ NewWorkUnitName(repo, w) \notin DOMAIN sessionsByName
           /\ NewSession(repo, w))
          =>
          LET sesh == last'.created IN
          /\ ~last'.err
          /\ sesh \notin DOMAIN tmuxSessions
          /\ sesh \in Live(tmuxSessions')
          /\ tmuxSessions'[sesh].path = repo.dir
          /\ NewWorkUnitName(repo, w) \in DOMAIN sessionsByName'
          /\ sessionsByName'[NewWorkUnitName(repo, w)] = sesh
          /\ sesh \in DOMAIN sessionsByID'
          /\ sessionsByID'[sesh] = [repo |-> repo, workUnitName |-> w]
          /\ Get(unqualifiedRepos', repo.name, 0) = Get(unqualifiedRepos, repo.name, 0) + 1
          /\ NewRepoName(repo) \in DOMAIN repos'
          /\ repos'[NewRepoName(repo)] = repo
      ]_vars

C16_Witness ==
    /\ last.op = "NewSession"
    /\ ~last.err
    /\ last.created \in Range(sessionsByName)
    /\ \E r \in DOMAIN unqualifiedRepos : unqualifiedRepos[r] >= 2

\* C17: after a successful RenameSession(repo, old, new) the session that was
\* indexed under old is indexed under NewWorkUnitName(repo, new) with the same
\* id, no entry remains under the old name, sessionsByID gives work unit new
\* for that id, and unqualifiedRepos and repos are unchanged.
C17_RenameMovesEntry ==
    [][\A repo \in Repositories, old \in OldNames, new \in WorkUnits :
          (/\ last'.op = "RenameSession"
           /\ ~last'.err
           /\ calls' = calls + 1
           /\ RenameSession(repo, old, new))
          =>
          LET oldName == ParseSessionName(repo, old)
              newName == NewWorkUnitName(repo, new)
              sesh    == sessionsByName[oldName]
          IN
          /\ newName \in DOMAIN sessionsByName'
          /\ sessionsByName'[newName] = sesh
          /\ oldName \notin DOMAIN sessionsByName'
          /\ \A n \in DOMAIN sessionsByName' : sessionsByName'[n] = sesh => n = newName
          /\ sesh \in DOMAIN sessionsByID'
          /\ sessionsByID'[sesh].workUnitName = new
          /\ NewRepoName(sessionsByID'[sesh].repo) = NewRepoName(repo)
          /\ UNCHANGED << unqualifiedRepos, repos >>
      ]_vars

C17_Witness ==
    /\ last.op = "RenameSession"
    /\ ~last.err
    /\ \E c \in last.primary :
          /\ c.ok
          /\ c.sesh \in Range(sessionsByName)
    /\ Cardinality(DOMAIN sessionsByName) >= 2

\* The unqualified repo names the sessions of sessionsByName cover.
CoveredRepos == { m.Repo : m \in DOMAIN sessionsByName }

\* The work units SessionName may be asked about.
CandidateNames ==
    { NewWorkUnitName(repo, w) : repo \in DiskRepositories, w \in WorkUnits }

\* C18: SessionName(n) is the qualified form n.Repo>n.WorkUnit exactly when
\* the sessions currently indexed cover more than one unqualified repo name,
\* or cover exactly one that is not n.Repo; otherwise, also with no session
\* indexed, it is n.WorkUnit alone.
C18_SessionNamePolicy ==
    constructed =>
        \A n \in CandidateNames :
            SessionName(unqualifiedRepos, n) =
                IF \/ Cardinality(CoveredRepos) > 1
                   \/ Cardinality(CoveredRepos) = 1 /\ n.Repo \notin CoveredRepos
                THEN RepoString(n)
                ELSE WorkUnitString(n)

\* What the lookup of every session path answers when every probe answers.
ProbeAnswers ==
    [d \in { tmuxSessions[s].path : s \in DOMAIN tmuxSessions } |->
        FindRepositoryInDir(d, {})]

\* C19: after New, each session whose directory resolved to a repository R
\* is indexed in sessionsByName under ParseSessionName(R, its display name)
\* and in sessionsByID under its id, and each session whose directory
\* resolved to no repository is in unknownSessions under its display name.
C19_NewIndexesEverySession ==
    (last.op = "New" /\ ~last.err /\ failedDirs = {}) =>
        \A s \in sessions :
            LET found == ProbeAnswers[tmuxSessions[s].path].repo
                name  == ParseSessionName(found, Shown(tmuxSessions, s))
            IN  IF found # NoRepo
                THEN /\ name \in DOMAIN sessionsByName
                     /\ sessionsByName[name] = s
                     /\ s \in DOMAIN sessionsByID
                     /\ sessionsByID[s] = [repo |-> found, workUnitName |-> name.WorkUnit]
                ELSE /\ Shown(tmuxSessions, s) \in DOMAIN unknownSessions
                     /\ unknownSessions[Shown(tmuxSessions, s)] = s

\* C20: New returns an error only when the server cannot be queried; a
\* failed or ambiguous lookup for one directory does not make New fail, and
\* the sessions of the other directories are indexed as they are when every
\* probe answers.
C20_ProbeFailureStaysLocal ==
    last.op = "New" =>
        /\ last.err <=> ~last.listOk
        /\ ~last.err =>
              \A s \in { t \in sessions : tmuxSessions[t].path \notin failedDirs } :
                  LET found == ProbeAnswers[tmuxSessions[s].path].repo
                      name  == ParseSessionName(found, Shown(tmuxSessions, s))
                  IN  IF found # NoRepo
                      THEN /\ name \in DOMAIN sessionsByName
                           /\ s \in DOMAIN sessionsByID
                           /\ sessionsByID[s] = [repo |-> found,
                                                 workUnitName |-> name.WorkUnit]
                           /\ NewRepoName(found) \in DOMAIN repos
                           /\ s \notin Range(unknownSessions)
                      ELSE /\ Shown(tmuxSessions, s) \in DOMAIN unknownSessions
                           /\ unknownSessions[Shown(tmuxSessions, s)] = s
                           /\ s \notin DOMAIN sessionsByID

C20_Witness ==
    /\ last.op = "New"
    /\ ~last.err
    /\ "d3" \in failedDirs
    /\ \E s \in sessions :
          /\ tmuxSessions[s].path = "d3"
          /\ s \notin DOMAIN sessionsByID
    /\ \E s \in sessions :
          /\ tmuxSessions[s].path \notin failedDirs
          /\ s \in DOMAIN sessionsByID

\* C27: after New and after every later mutating call, unqualifiedRepos has
\* a key r exactly when some WorkUnitName of sessionsByName has Repo r, and
\* its value is the number of such entries, counted across all VCS kinds.
C27_UnqualifiedReposCountsIndex ==
    constructed =>
        /\ DOMAIN unqualifiedRepos = CoveredRepos
        /\ \A r \in DOMAIN unqualifiedRepos :
              unqualifiedRepos[r] =
                  Cardinality({ n \in DOMAIN sessionsByName : n.Repo = r })

\* C28: after New and after every completed NewSession, RenameSession or
\* PruneSessions call, every RepoName key of repos is the RepoName of at
\* least one WorkUnitName key of sessionsByName.
C28_ReposHaveSessions ==
    constructed =>
        \A k \in DOMAIN repos :
            \E n \in DOMAIN sessionsByName : RepoNameOf(n) = k

\* ------------------------------------------------------------ State queries

\* The server the State was built over, and another server whose sessions
\* can carry the same ids.
StateServer == "srv"

Servers == { StateServer, "other" }

ServerPID == [srv \in Servers |-> IF srv = StateServer THEN 1 ELSE 2]

\* tmux.SameServer(ctx, a, b): the same handle, or two handles whose PID
\* queries both answer, with the same PID.  pidErr: the servers whose PID
\* query fails.
SameServer(a, b, pidErr) ==
    \/ a = b
    \/ /\ a \notin pidErr
       /\ b \notin pidErr
       /\ ServerPID[a] = ServerPID[b]

\* The session handles a caller can pass: a server and a session id.
SessionHandles == [srv : Servers, id : DOMAIN tmuxSessions]

\* State.WorkUnit(ctx, sesh).
WorkUnit(sesh, pidErr) ==
    IF ~SameServer(sesh.srv, StateServer, pidErr)
    THEN [err |-> TRUE, repo |-> NoRepo, workUnitName |-> <<>>]
    ELSE IF sesh.id \notin DOMAIN sessionsByID
         THEN [err |-> TRUE, repo |-> NoRepo, workUnitName |-> <<>>]
         ELSE [err |-> FALSE, repo |-> sessionsByID[sesh.id].repo,
               workUnitName |-> sessionsByID[sesh.id].workUnitName]

\* The nil tmux.Session.
NilSession == [srv |-> "none", id |-> NoSession]

\* State.Session(repo, workUnitName).
Session(repo, workUnitName) ==
    LET n == NewWorkUnitName(repo, workUnitName) IN
    IF n \in DOMAIN sessionsByName
    THEN [srv |-> StateServer, id |-> sessionsByName[n]]
    ELSE NilSession

\* C24: WorkUnit(session) returns an error when the session belongs to a
\* different server or has no sessionsByID entry; otherwise it returns the
\* (repository, work unit) for which Session(repository, work unit) returns
\* that same session.
C24_WorkUnitInvertsSession ==
    constructed =>
        \A sesh \in SessionHandles, pidErr \in SUBSET Servers :
            LET wu == WorkUnit(sesh, pidErr) IN
            IF sesh.srv # StateServer \/ sesh.id \notin DOMAIN sessionsByID
            THEN wu.err
            ELSE /\ ~wu.err
                 /\ Session(wu.repo, wu.workUnitName) = sesh

\* The names MaybeFindRepository is asked about: parsed from what the user
\* typed, with or without a repository hint and a VCS hint.
QueryNames ==
    [VCS : { <<>>, <<"git">>, <<"hg">> },
     Repo : { <<>>, <<"r1">>, <<"r2">> },
     WorkUnit : { <<"a">> }]

\* What Repository.Exists can answer.
ExistsOutcomes == { "yes", "no", "err" }

\* State.MaybeFindRepository asking every indexed repository, whatever the
\* name says.
CandidatesOfAnyName(n) == Range(repos)

\* The repositories State.MaybeFindRepository asks (state.go 301-321).
Candidates(n) ==
    CASE n.VCS # <<>> ->
             IF RepoNameOf(n) \in DOMAIN repos THEN { repos[RepoNameOf(n)] } ELSE {}
      [] n.Repo # <<>> ->
             { repos[m] : m \in { k \in DOMAIN repos : k.Repo = n.Repo } }
      [] OTHER -> Range(repos)

\* State.MaybeFindRepository(ctx, n), where exists gives the answer of
\* Exists(n.WorkUnit) of every candidate, by RepoName.
MaybeFindRepository(n, exists) ==
    IF n.VCS # <<>> /\ n.Repo = <<>>
    THEN [repo |-> NoRepo, err |-> TRUE, matches |-> {}]
    ELSE LET cands == Candidates(n)
             found == { r \in cands : exists[NewRepoName(r)] = "yes" }
             errs  == Cardinality({ r \in cands : exists[NewRepoName(r)] = "err" })
         IN  MaybeFindRepositoryResult(found, errs)

\* A call of State.MaybeFindRepository: it reads the State and changes
\* nothing.  A query right after a query reaches nothing new.
CallMaybeFindRepository(n) ==
    /\ constructed
    /\ last.op # "MaybeFindRepository"
    /\ \E exists \in [{ NewRepoName(r) : r \in Candidates(n) } -> ExistsOutcomes] :
          last' = [NoCall("MaybeFindRepository") EXCEPT
                     !.query = n, !.exists = exists,
                     !.found = MaybeFindRepository(n, exists)]
    /\ UNCHANGED << tmuxSessions, nextSessionID, constructed, engine,
                    failedDirs, calls, faultyCalls >>

\* Mutating calls allowed before the queries are explored.
MaxQueryCalls == 1

\* The engine with MaybeFindRepository callable between the other calls.
NextQuery ==
    \/ New /\ UNCHANGED procs
    \/ /\ calls < MaxQueryCalls
       /\ \E repo \in Repositories, w \in WorkUnits : NewSession(repo, w)
       /\ UNCHANGED procs
    \/ /\ calls < MaxQueryCalls
       /\ \E repo \in Repositories, old \in OldNames, new \in WorkUnits :
             RenameSession(repo, old, new)
       /\ UNCHANGED procs
    \/ /\ calls < MaxQueryCalls
       /\ \E listing \in Listings,
             cur \in Range(sessionsByName) \cup { NoSession } :
             PruneSessions(listing, cur)
       /\ UNCHANGED procs
    \/ \E n \in QueryNames : CallMaybeFindRepository(n) /\ UNCHANGED procs

SpecQuery == Init /\ [][NextQuery]_vars

\* The candidates that answered yes, no, and with an error in the last query.
Answered(outcome) ==
    { k \in DOMAIN last.exists : last.exists[k] = outcome }

\* C21: if no candidate's Exists check returns true for the work unit (the
\* candidate set may be empty, and candidates may answer false or fail),
\* MaybeFindRepository returns no repository and no error.
C21_NoMatchNoError ==
    (last.op = "MaybeFindRepository" /\ Answered("yes") = {}) =>
        /\ last.found.repo = NoRepo
        /\ ~last.found.err

\* C22: if two or more candidates report that the work unit exists,
\* MaybeFindRepository returns no repository and an error whose message names
\* the (VCS, Repo) identity of every matching repository.
C22_AmbiguousMatchNamesAll ==
    (last.op = "MaybeFindRepository" /\ Cardinality(Answered("yes")) >= 2) =>
        /\ last.found.repo = NoRepo
        /\ last.found.err
        /\ Answered("yes") \subseteq last.found.matches

C22_Witness ==
    /\ last.op = "MaybeFindRepository"
    /\ Cardinality(Answered("yes")) >= 2
    /\ last.query.Repo = <<"r1">>
    /\ last.found.err

\* C23: if exactly one candidate reports that the work unit exists,
\* MaybeFindRepository returns that repository with no error, even when the
\* Exists checks of other candidates fail.
C23_SingleMatchWins ==
    (last.op = "MaybeFindRepository" /\ Cardinality(Answered("yes")) = 1) =>
        /\ ~last.found.err
        /\ last.found.repo # NoRepo
        /\ Answered("yes") = { NewRepoName(last.found.repo) }
        /\ last.found.repo = repos[NewRepoName(last.found.repo)]

C23_Witness ==
    /\ last.op = "MaybeFindRepository"
    /\ Cardinality(Answered("yes")) = 1
    /\ Answered("err") # {}
    /\ ~last.found.err
    /\ last.found.repo # NoRepo

\* ------------------------------------------------------ parsing on its own

\* Display names ParseSessionName is given: no hint, a repo hint that agrees
\* or not, a VCS and a repo hint, more delimiters than hints, empty parts.
DisplayNames ==
    { <<"a">>,
      <<"r1", Delim, "a">>,
      <<"r2", Delim, "a">>,
      <<"git", Delim, "r1", Delim, "a">>,
      <<"hg", Delim, "r2", Delim, "b">>,
      <<"hg", Delim, "r1", Delim, "a", Delim, "b">>,
      <<Delim, "a">>,
      <<"git", Delim, Delim, "a">>,
      <<>> }

\* A call of ParseSessionName(repo, tmuxSessionName): a function of its
\* arguments alone.
CallParseSessionName(repo, tmuxSessionName) ==
    /\ last' = [NoCall("ParseSessionName") EXCEPT
                  !.query = [repo |-> repo, name |-> tmuxSessionName],
                  !.found = ParseSessionName(repo, tmuxSessionName)]
    /\ UNCHANGED << tmuxSessions, nextSessionID, constructed, engine,
                    failedDirs, calls, faultyCalls >>

NextParse ==
    \E repo \in DiskRepositories, name \in DisplayNames :
        CallParseSessionName(repo, name) /\ UNCHANGED procs

SpecParse == Init /\ [][NextParse]_vars

\* s ends with t.
EndsWith(s, t) ==
    /\ Len(t) <= Len(s)
    /\ SubSeq(s, Len(s) - Len(t) + 1, Len(s)) = t

\* C25: for every repository handle and every display name, ParseSessionName
\* returns a WorkUnitName whose VCS and Repo are the handle's own VCS name and
\* repository name, whatever hints the string carries; only the WorkUnit part
\* is taken from the string.
C25_ParseTrustsRepository ==
    last.op = "ParseSessionName" =>
        /\ last.found.VCS = last.query.repo.vcs
        /\ last.found.Repo = last.query.repo.name
        /\ EndsWith(last.query.name, last.found.WorkUnit)

C25_Witness ==
    /\ last.op = "ParseSessionName"
    /\ last.query.repo.vcs = <<"git">>
    /\ last.query.repo.name = <<"r1">>
    /\ last.query.name = <<"hg", Delim, "r2", Delim, "b">>
    /\ last.found = [VCS |-> <<"git">>, Repo |-> <<"r1">>, WorkUnit |-> <<"b">>]

\* ------------------------------------------------------- the update command

\* The command returns err (nil when err is FALSE): main exits with status 1
\* on an error and 0 otherwise (main.go, cmd/root.go Execute).
Returned(c, err) ==
    [c EXCEPT !.pc = "exit", !.err = err, !.exit = IF err THEN 1 ELSE 0]

\* "No update needed." without the exit of --fail-noop.
NoUpdateNeededIgnoringFlag(c) ==
    [c EXCEPT !.pc = "exit", !.exit = 0]

\* "No update needed.": os.Exit(1) under --fail-noop, return nil otherwise.
NoUpdateNeeded(c) ==
    [c EXCEPT !.pc = "exit", !.exit = IF c.failNoop THEN 1 ELSE 0]

\* tmux.SameSession for two sessions of the State's server.
SameSession(a, b) == a = b

\* The command leaves the State and the server alone in this step.
CommandOnly ==
    UNCHANGED << tmuxSessions, nextSessionID, constructed, engine, failedDirs,
                 calls, faultyCalls, last, probes >>

\* update(): the form without an argument, up to state.New.  It runs inside
\* tmux (a current session exists) or outside.
Update(failNoop) ==
    LET c == [NoCommand EXCEPT !.form = "update", !.failNoop = failNoop] IN
    \E repoOk \in BOOLEAN, repo \in Repositories,
       curOk \in BOOLEAN, cur \in WorkUnits,
       sesh \in Live(tmuxSessions) \cup { NoSession } :
        IF ~repoOk \/ ~curOk
        THEN cmd' = Returned(c, TRUE)
        ELSE IF sesh = NoSession
        THEN cmd' = [c EXCEPT !.pc = "state", !.repo = repo, !.workUnit = cur,
                              !.needTmux = TRUE]
        ELSE \E nameOk \in BOOLEAN, updateOk \in BOOLEAN :
             LET parsed == ParseSessionName(repo, tmuxSessions[sesh].name)
                 d == [c EXCEPT !.hasCurrentServer = TRUE, !.repo = repo,
                                !.sesh = sesh]
             IN  IF ~nameOk
                 THEN cmd' = Returned(d, TRUE)
                 ELSE IF cur # parsed.WorkUnit
                 THEN cmd' = Returned([d EXCEPT !.workUnit = parsed.WorkUnit,
                                                !.needRepo = TRUE,
                                                !.didRepo = updateOk],
                                      ~updateOk)
                 ELSE cmd' = NoUpdateNeeded([d EXCEPT !.workUnit = parsed.WorkUnit])

\* RunE of the update command: update() without an argument, updateTo(name)
\* with one, the name parsed without a known repository.
RunUpdate ==
    /\ cmd.pc = "idle"
    /\ ~constructed
    /\ \E failNoop \in BOOLEAN :
        \/ Update(failNoop)
        \/ \E n \in QueryNames, hasCurrentServer \in BOOLEAN :
              /\ hasCurrentServer => Live(tmuxSessions) # {}
              /\ cmd' = [NoCommand EXCEPT !.pc = "state", !.form = "updateTo",
                                          !.failNoop = failNoop, !.n = n,
                                          !.hasCurrentServer = hasCurrentServer]
    /\ CommandOnly

\* state.New in update() and updateTo().
UpdateNewState ==
    /\ cmd.pc = "state"
    /\ New
    /\ cmd' = IF last'.err
              THEN Returned(cmd, TRUE)
              ELSE [cmd EXCEPT !.pc = IF cmd.form = "update" THEN "tmux" ELSE "find"]
    /\ UNCHANGED probes

\* existsInCurrentRepo(workUnitName): cur is what MaybeCurrentRepository
\* finds, curErr whether it fails, exists what Exists answers.
ExistsInCurrentRepo(cur, curErr, exists) ==
    IF curErr THEN [repo |-> NoRepo, err |-> TRUE]
    ELSE IF cur = NoRepo THEN [repo |-> NoRepo, err |-> FALSE]
    ELSE IF exists = "err" THEN [repo |-> NoRepo, err |-> TRUE]
    ELSE IF exists = "no" THEN [repo |-> NoRepo, err |-> FALSE]
    ELSE [repo |-> cur, err |-> FALSE]

\* findRepository(st, n).
FindRepository(n, inCur, exists) ==
    IF n.VCS = <<>> /\ n.Repo = <<>> /\ ~inCur.err /\ inCur.repo # NoRepo
    THEN [repo |-> inCur.repo, err |-> FALSE]
    ELSE LET found == MaybeFindRepository(n, exists) IN
         IF found.err \/ found.repo = NoRepo
         THEN [repo |-> NoRepo, err |-> TRUE]
         ELSE [repo |-> found.repo, err |-> FALSE]

\* updateTo after state.New: find the repository, update it to the work
\* unit, decide whether tmux has to switch.  curSesh: the session tmux shows.
UpdateTo ==
    /\ cmd.pc = "find"
    /\ \E cur \in Repositories \cup { NoRepo }, curErr \in BOOLEAN,
          curExists \in ExistsOutcomes,
          exists \in [{ NewRepoName(r) : r \in Candidates(cmd.n) } -> ExistsOutcomes],
          currentOk \in BOOLEAN, current \in WorkUnits, updateOk \in BOOLEAN,
          curSesh \in Live(tmuxSessions) \cup { NoSession } :
        LET found == FindRepository(cmd.n, ExistsInCurrentRepo(cur, curErr, curExists),
                                    exists)
            repo  == found.repo
            want  == cmd.n.WorkUnit
            c     == [cmd EXCEPT !.repo = repo, !.workUnit = want]
            sesh  == Session(repo, want)
            needsSwitch ==
                \/ ~cmd.hasCurrentServer
                \/ sesh = NilSession
                \/ curSesh = NoSession
                \/ ~SameSession(curSesh, sesh.id)
        IN  IF found.err \/ ~currentOk
            THEN cmd' = Returned(c, TRUE)
            ELSE IF current # want /\ ~updateOk
            THEN cmd' = Returned([c EXCEPT !.needRepo = TRUE], TRUE)
            ELSE LET d == [c EXCEPT !.needRepo = (current # want),
                                    !.didRepo = (current # want),
                                    !.update = (current # want),
                                    !.needTmux = needsSwitch]
                 IN  IF needsSwitch
                     THEN cmd' = [d EXCEPT !.pc = "tmux"]
                     ELSE IF d.update
                     THEN cmd' = Returned(d, FALSE)
                     ELSE cmd' = NoUpdateNeeded(d)
    /\ CommandOnly

\* updateTmux up to AttachOrSwitch: the session of the work unit, created
\* with NewSession when there is none.
UpdateTmux ==
    /\ cmd.pc = "tmux"
    /\ IF Session(cmd.repo, cmd.workUnit) = NilSession
       THEN /\ NewSession(cmd.repo, cmd.workUnit)
            /\ cmd' = IF last'.err
                      THEN Returned(cmd, TRUE)
                      ELSE [cmd EXCEPT !.pc = "attach", !.sesh = last'.created]
            /\ UNCHANGED probes
       ELSE /\ cmd' = [cmd EXCEPT !.pc = "attach",
                                  !.sesh = Session(cmd.repo, cmd.workUnit).id]
            /\ CommandOnly

\* srv.AttachOrSwitch(sesh) and the return of the command.
UpdateAttach ==
    /\ cmd.pc = "attach"
    /\ \E attachOk \in BOOLEAN :
          cmd' = Returned([cmd EXCEPT !.didTmux = attachOk, !.update = attachOk],
                          ~attachOk)
    /\ CommandOnly

NextUpdate ==
    \/ RunUpdate
    \/ UpdateNewState
    \/ UpdateTo
    \/ UpdateTmux
    \/ UpdateAttach

SpecUpdate == Init /\ [][NextUpdate]_vars

\* C26: with --fail-noop, the update command ends with a non-zero exit
\* status exactly when it returned an error or it found that neither a
\* repository switch nor a terminal session switch or creation was needed;
\* when it made a change successfully it ends with status zero.
C26_FailNoopExitStatus ==
    (cmd.pc = "exit" /\ cmd.failNoop) =>
        /\ (cmd.exit # 0) <=> (cmd.err \/ (~cmd.needRepo /\ ~cmd.needTmux))
        /\ (~cmd.err /\ (cmd.didRepo \/ cmd.didTmux)) => cmd.exit = 0

C26_Witness ==
    /\ cmd.pc = "exit"
    /\ cmd.failNoop
    /\ cmd.form = "updateTo"
    /\ ~cmd.err
    /\ ~cmd.needRepo
    /\ ~cmd.needTmux
    /\ cmd.exit = 1

\* ------------------------------------------- New, one probe task per path

\* The directory among ds whose result is merged last in order.
LastDir(order, ds) ==
    CHOOSE d \in ds :
        \E i \in 1..Len(order) :
            /\ order[i] = d
            /\ \A j \in (i+1)..Len(order) : order[j] \notin ds

\* sessionsByName after the merge loop took the results in order: a key that
\* sessions of several results parse to keeps a session of the last of them.
MergedSessionsByName(tm, listed, probe, order) ==
    LET res == Resolved(tm, listed, probe) IN
    { f \in NewSessionsByName(tm, listed, probe) :
        \A k \in DOMAIN f :
            tm[f[k]].path =
                LastDir(order, { tm[s].path : s \in { t \in res :
                                     ParsedName(tm, probe, t) = k } }) }

\* repos after the merge loop took the results in order: a RepoName that
\* several results carry keeps the repository of the last of them.
MergedRepos(tm, listed, probe, order) ==
    LET res == Resolved(tm, listed, probe) IN
    { f \in NewRepos(tm, listed, probe) :
        \A k \in DOMAIN f :
            f[k].dir =
                LastDir(order, { tm[s].path : s \in { t \in res :
                                     NewRepoName(probe[tm[t].path].repo) = k } }) }

\* A step of New's tasks leaves the server, the State and the command alone.
ProbesOnly ==
    UNCHANGED << tmuxSessions, nextSessionID, constructed, engine, failedDirs,
                 calls, faultyCalls, last, cmd >>

\* New up to the collecting loop (state.go 38-89): list the sessions, make
\* the results channel with room for one result per path, start one probe
\* task per path and the task that closes the channel.
NewStart ==
    /\ probes.pc = "idle"
    /\ ~constructed
    /\ \E queryOk \in BOOLEAN :
        IF ~queryOk
        THEN /\ NewFails
             /\ probes' = [probes EXCEPT !.pc = "done"]
             /\ UNCHANGED cmd
        ELSE LET paths == { tmuxSessions[s].path : s \in Live(tmuxSessions) } IN
             /\ probes' = [NoProbes EXCEPT
                             !.pc = "collect", !.paths = paths,
                             !.task = [d \in paths |-> "run"],
                             !.outcome = [d \in paths |-> MaybeFindRepositoryResult({}, 0)],
                             !.capacity = Cardinality(paths),
                             !.wg = Cardinality(paths)]
             /\ ProbesOnly

\* A probe task whose early return skips wg.Done.
ProbeReturnsLeakingWaitGroup(dir, res) ==
    [probes EXCEPT !.outcome[dir] = res,
                   !.task[dir] = IF res.err THEN "done" ELSE "send"]

\* The probe task of dir gets the result res of its lookup (state.go 78-83):
\* with an error it logs and returns, its deferred wg.Done running; otherwise
\* it goes on to send the result.
ProbeReturns(dir, res) ==
    [probes EXCEPT !.outcome[dir] = res,
                   !.task[dir] = IF res.err THEN "done" ELSE "send",
                   !.wg = IF res.err THEN @ - 1 ELSE @]

\* vcs.MaybeFindRepository(ctx, path) returns on its own.
Probe(dir) ==
    /\ probes.pc = "collect"
    /\ dir \in probes.paths
    /\ probes.task[dir] = "run"
    /\ \E bad \in SUBSET { VCSKinds[i] : i \in 1..Len(VCSKinds) } :
          probes' = ProbeReturns(dir, FindRepositoryInDir(dir, bad \X { dir }))
    /\ ProbesOnly

\* A probe that does not hear of the cancellation.
ProbeIgnoringContext(dir) ==
    /\ FALSE
    /\ UNCHANGED vars

\* The context is cancelled while the lookup runs: exec.CommandContext kills
\* the command the lookup waits for, which makes the lookup answer that
\* there is no repository, or fail.
ProbeInterrupted(dir) ==
    /\ probes.pc = "collect"
    /\ dir \in probes.paths
    /\ probes.task[dir] = "run"
    /\ probes.cancelled
    /\ \E errs \in 0..1 :
          probes' = [ProbeReturns(dir, MaybeFindRepositoryResult({}, errs))
                        EXCEPT !.interrupted = @ \cup { dir }]
    /\ ProbesOnly

\* results <- result{sessions, repo}, then the deferred wg.Done.
Send(dir) ==
    /\ probes.pc = "collect"
    /\ dir \in probes.paths
    /\ probes.task[dir] = "send"
    /\ ~probes.closed
    /\ Len(probes.results) < probes.capacity
    /\ probes' = [probes EXCEPT !.results = Append(@, dir),
                                !.task[dir] = "done",
                                !.wg = @ - 1]
    /\ ProbesOnly

\* wg.Wait(); close(results) (state.go 86-89).
CloseResults ==
    /\ probes.pc = "collect"
    /\ ~probes.closed
    /\ probes.wg = 0
    /\ probes' = [probes EXCEPT !.closed = TRUE]
    /\ ProbesOnly

\* One round of the collecting loop (state.go 91-111).
Receive ==
    /\ probes.pc = "collect"
    /\ probes.results # <<>>
    /\ probes' = [probes EXCEPT !.results = Tail(@),
                                !.received = @ \cup { Head(probes.results) },
                                !.order = Append(@, Head(probes.results))]
    /\ ProbesOnly

\* The lookup result of every path as the collecting loop saw it: a task
\* that returned early handed no result over.
Outcomes ==
    [d \in probes.paths |->
        IF d \in probes.received
        THEN probes.outcome[d]
        ELSE MaybeFindRepositoryResult({}, 1)]

\* The collecting loop ends on the closed, drained channel and New returns
\* the State (state.go 91, 112).
NewReturn ==
    /\ probes.pc = "collect"
    /\ probes.results = <<>>
    /\ probes.closed
    /\ NewReturns(Live(tmuxSessions), Outcomes)
    /\ sessionsByName' \in MergedSessionsByName(tmuxSessions, Live(tmuxSessions),
                                                Outcomes, probes.order)
    /\ repos' \in MergedRepos(tmuxSessions, Live(tmuxSessions), Outcomes,
                              probes.order)
    /\ probes' = [probes EXCEPT !.pc = "done"]
    /\ UNCHANGED cmd

\* The caller cancels ctx while New collects.
Cancel ==
    /\ probes.pc = "collect"
    /\ ~probes.cancelled
    /\ probes' = [probes EXCEPT !.cancelled = TRUE]
    /\ ProbesOnly

NextProbe ==
    \/ NewStart
    \/ \E dir \in Dirs : Probe(dir)
    \/ \E dir \in Dirs : ProbeInterrupted(dir)
    \/ \E dir \in Dirs : Send(dir)
    \/ CloseResults
    \/ Receive
    \/ NewReturn
    \/ Cancel

\* The tasks are goroutines: one that can take a step eventually does.  A
\* lookup need not return on its own; an interrupted one does.
SpecProbe ==
    /\ Init
    /\ [][NextProbe]_vars
    /\ \A dir \in Dirs : WF_vars(Send(dir))
    /\ \A dir \in Dirs : WF_vars(ProbeInterrupted(dir))
    /\ WF_vars(CloseResults)
    /\ WF_vars(Receive)
    /\ WF_vars(NewReturn)

\* Every lookup New started has returned.
ProbesReturned ==
    /\ probes.pc = "collect"
    /\ \A d \in probes.paths : probes.task[d] # "run"

\* A task that has a result to hand over can do so at once.
CanSend ==
    \A d \in probes.paths :
        probes.task[d] = "send" =>
            ~probes.closed /\ Len(probes.results) < probes.capacity

\* C29: New returns once every directory probe has returned, for any number
\* of directories and any mix of probe outcomes: no probe task blocks
\* handing over its result, and the collecting loop ends after the last
\* probe finishes.
C29_NewReturnsAfterProbes ==
    /\ [](probes.pc = "collect" => CanSend)
    /\ ProbesReturned ~> (probes.pc = "done")

C29_Witness ==
    /\ probes.pc = "done"
    /\ constructed
    /\ Cardinality(probes.paths) = 2
    /\ \E d \in probes.paths : probes.outcome[d].err
    /\ \E d \in probes.paths : d \in probes.received

\* The lookup of the probe task of dir has not returned yet.
Running(dir) ==
    IF dir \in probes.paths THEN probes.task[dir] = "run" ELSE FALSE

\* C30: if the context is cancelled while directory probes are outstanding,
\* every outstanding probe is interrupted, and no probe task is still running
\* when New returns.
C30_CancelInterruptsProbes ==
    /\ \A dir \in Dirs :
          (probes.cancelled /\ Running(dir)) ~> ~Running(dir)
    /\ [](probes.pc = "done" =>
             \A d \in probes.paths : probes.task[d] = "done")

C30_Witness ==
    /\ probes.pc = "done"
    /\ constructed
    /\ probes.cancelled
    /\ probes.interrupted # {}

\* ------------------------------------------- New over two clones of r1

\* Servers whose sessions sit in the two clones of the git repository r1.
CloneServers ==
    { tm \in InitServers :
        \A s \in DOMAIN tm : tm[s].path \in { "d0", "d1" } }

InClones(tm) ==
    [s \in DOMAIN tm |->
        [tm[s] EXCEPT !.path = IF tm[s].path = "d0" THEN "d4" ELSE "d1"]]

InitMerge ==
    /\ tmuxSessions \in { InClones(tm) : tm \in CloneServers }
    /\ nextSessionID = Cardinality(DOMAIN tmuxSessions)
    /\ constructed = FALSE
    /\ sessions = {}
    /\ sessionsByName = Empty
    /\ sessionsByID = Empty
    /\ unqualifiedRepos = Empty
    /\ repos = Empty
    /\ unknownSessions = Empty
    /\ failedDirs = {}
    /\ calls = 0
    /\ faultyCalls = 0
    /\ last = NoCall("none")
    /\ cmd = NoCommand
    /\ probes = NoProbes

SpecMerge == InitMerge /\ [][NextProbe]_vars

\* The orders the results of the received paths can be merged in.
MergeOrders ==
    { o \in [1..Len(probes.order) -> probes.received] :
        \A i, j \in 1..Len(probes.order) : i # j => o[i] # o[j] }

\* C31: the engine state New produces (all five index structures) is the
\* same for every order in which the directory probes finish and their
\* results are merged, including when two directories resolve to
\* repositories with the same RepoName.
C31_MergeOrderIrrelevant ==
    (probes.pc = "done" /\ constructed) =>
        \A o \in MergeOrders :
            /\ sessionsByName \in MergedSessionsByName(tmuxSessions, sessions,
                                                      Outcomes, o)
            /\ repos \in MergedRepos(tmuxSessions, sessions, Outcomes, o)

\* ------------------------------------------- display names of the index

\* C32: in every reachable engine state, two different WorkUnitName keys of
\* sessionsByName are never given the same display name by SessionName,
\* including work units of two repositories that share a repository name
\* under different VCS kinds.
C32_DisplayNamesDistinct ==
    \A n1, n2 \in DOMAIN sessionsByName :
        n1 # n2 =>
            SessionName(unqualifiedRepos, n1) # SessionName(unqualifiedRepos, n2)

\* The WorkUnitName NewSession indexed the session it created under.
CreatedName ==
    NewWorkUnitName(sessionsByID[last.created].repo,
                    sessionsByID[last.created].workUnitName)

\* C33: the display name NewSession passes to the terminal when it creates
\* a session equals the value SessionName gives for that work unit after
\* the new entry has been added to the index, in every starting state (empty
\* index, same repository only, one other repository, several repositories).
C33_CreatedNameIsPolicyName ==
    [][(last'.op = "NewSession" /\ calls' = calls + 1
            /\ last'.created # NoSession)
        => last'.createName = SessionName(unqualifiedRepos', CreatedName')]_vars

\* A session was created for the first work unit of a repository while one
\* other repository was indexed: it was created under its qualified name.
C33_Witness ==
    /\ last.op = "NewSession"
    /\ last.created # NoSession
    /\ Cardinality(DOMAIN unqualifiedRepos) = 2
    /\ unqualifiedRepos[CreatedName.Repo] = 1
    /\ last.createName = RepoString(CreatedName)

\* The indexed session under key k shows its policy name, or the last
\* updateSessionNames asked the server to give it that name.
ShownOrAttempted(k) ==
    LET s == sessionsByName[k]
        want == SessionName(unqualifiedRepos, k)
    IN  \/ tmuxSessions[s].name = want
        \/ \E c \in last.renames : c.sesh = s /\ c.name = want

\* The last call on the State ran updateSessionNames.
FixedUp == last.listed /\ last.op # "New"

C35_FoundRepositoryMatchesName ==
    last.op = "MaybeFindRepository" =>
        LET n == last.query
            f == last.found
        IN  /\ f.repo # NoRepo =>
                /\ f.repo \in Range(repos)
                /\ NewRepoName(f.repo) \in DOMAIN last.exists
                /\ last.exists[NewRepoName(f.repo)] = "yes"
                /\ (n.VCS # <<>> /\ n.Repo # <<>>)
                       => NewRepoName(f.repo) = RepoNameOf(n)
                /\ (n.VCS = <<>> /\ n.Repo # <<>>) => f.repo.name = n.Repo
            /\ (n.VCS # <<>> /\ n.Repo # <<>> /\ RepoNameOf(n) \notin DOMAIN repos)
                   => (f.repo = NoRepo /\ ~f.err)

\* A query by repository name alone found that repository's work unit while
\* a repository of another name was indexed as well.
C35_Witness ==
    /\ last.op = "MaybeFindRepository"
    /\ last.found.repo # NoRepo
    /\ last.query.VCS = <<>>
    /\ last.query.Repo = last.found.repo.name
    /\ \E k \in DOMAIN repos : k.Repo # last.query.Repo

\* ------------------------------------------- rendering and parsing back

\* Work unit names, one of them holding the delimiter.
WorkUnitTexts == WorkUnits \cup { << "a", Delim, "b" >> }

\* ParseSessionName(repo, text) on a rendering of the work unit w of repo:
\* RepoString when qualified, WorkUnitString otherwise.
CallParseRendering(repo, w, qualified) ==
    LET n    == NewWorkUnitName(repo, w)
        text == IF qualified THEN RepoString(n) ELSE WorkUnitString(n)
    IN  /\ last' = [NoCall("ParseSessionName") EXCEPT
                      !.query = [repo |-> repo, name |-> text, workUnit |-> w],
                      !.found = ParseSessionName(repo, text)]
        /\ UNCHANGED << tmuxSessions, nextSessionID, constructed, engine,
                        failedDirs, calls, faultyCalls >>

NextRoundTrip ==
    \E repo \in DiskRepositories, w \in WorkUnitTexts, qualified \in BOOLEAN :
        CallParseRendering(repo, w, qualified) /\ UNCHANGED procs

SpecRoundTrip == Init /\ [][NextRoundTrip]_vars

\* C36: for every repository R and every work unit name w, ParseSessionName(R,
\* text) returns NewWorkUnitName(R, w) both when text is the qualified
\* rendering (repo>w) and when it is the unqualified rendering (w), also when
\* w itself contains the delimiter '>'.
C36_ParseInvertsRendering ==
    last.op = "ParseSessionName" =>
        last.found = NewWorkUnitName(last.query.repo, last.query.workUnit)

\* ------------------------------------------- the new and commit commands

\* RunE of the new and the commit command: newWorkUnit(name, ctor) up to
\* CurrentRepository.  form tells which constructor, Repository.New or
\* Repository.Commit, the command hands over.
RunNewWorkUnit ==
    /\ cmd.pc = "idle"
    /\ ~constructed
    /\ \E form \in { "new", "commit" }, repoOk \in BOOLEAN,
          repo \in Repositories, workUnitName \in WorkUnits :
        LET c == [NoCommand EXCEPT !.form = form, !.workUnit = workUnitName] IN
        cmd' = IF repoOk
               THEN [c EXCEPT !.pc = "state", !.repo = repo]
               ELSE Returned(c, TRUE)
    /\ CommandOnly

\* state.New in newWorkUnit.
NewWorkUnitState ==
    /\ cmd.pc = "state"
    /\ cmd.form \in { "new", "commit" }
    /\ New
    /\ cmd' = IF last'.err THEN Returned(cmd, TRUE) ELSE [cmd EXCEPT !.pc = "ctor"]
    /\ UNCHANGED probes

\* newWorkUnit calling the constructor whether a session exists or not.
NewWorkUnitCtorUnchecked ==
    /\ cmd.pc = "ctor"
    /\ \E ctorOk \in BOOLEAN :
          cmd' = IF ctorOk
                 THEN [cmd EXCEPT !.pc = "session", !.ctor = "ok"]
                 ELSE Returned([cmd EXCEPT !.ctor = "failed"], TRUE)
    /\ CommandOnly

\* newWorkUnit: the work unit is constructed when the State has no session
\* for it; ctor records the constructor call and its outcome.
NewWorkUnitCtor ==
    /\ cmd.pc = "ctor"
    /\ IF Session(cmd.repo, cmd.workUnit) = NilSession
       THEN \E ctorOk \in BOOLEAN :
               cmd' = IF ctorOk
                      THEN [cmd EXCEPT !.pc = "session", !.ctor = "ok"]
                      ELSE Returned([cmd EXCEPT !.ctor = "failed"], TRUE)
       ELSE cmd' = [cmd EXCEPT !.pc = "session"]
    /\ CommandOnly

\* newWorkUnit: state.NewSession.
NewWorkUnitSession ==
    /\ cmd.pc = "session"
    /\ cmd.form \in { "new", "commit" }
    /\ NewSession(cmd.repo, cmd.workUnit)
    /\ cmd' = IF last'.err
              THEN Returned(cmd, TRUE)
              ELSE [cmd EXCEPT !.pc = "attach", !.sesh = last'.created]
    /\ UNCHANGED probes

\* newWorkUnit: srv.AttachOrSwitch(sesh) and the return of the command.
NewWorkUnitAttach ==
    /\ cmd.pc = "attach"
    /\ cmd.form \in { "new", "commit" }
    /\ \E attachOk \in BOOLEAN :
          cmd' = Returned([cmd EXCEPT !.didTmux = attachOk], ~attachOk)
    /\ CommandOnly

NextNewWorkUnit ==
    \/ RunNewWorkUnit
    \/ NewWorkUnitState
    \/ NewWorkUnitCtor
    \/ NewWorkUnitSession
    \/ NewWorkUnitAttach

SpecNewWorkUnit == Init /\ [][NextNewWorkUnit]_vars

\* One step of a new or commit command keeps the order of newWorkUnit.
NewWorkUnitInOrder ==
    cmd'.form \in { "new", "commit" } =>
        /\ cmd'.ctor # cmd.ctor
               => Session(cmd.repo, cmd.workUnit) = NilSession
        /\ (cmd.pc \in { "ctor", "session" }
                /\ Session(cmd.repo, cmd.workUnit) # NilSession)
               => /\ cmd'.ctor = "none"
                  /\ tmuxSessions' = tmuxSessions
                  /\ cmd.pc = "session" => (cmd'.pc = "exit" /\ cmd'.err)
        /\ cmd'.ctor = "failed"
               => /\ cmd'.pc = "exit" /\ cmd'.err
                  /\ tmuxSessions' = tmuxSessions
        /\ DOMAIN tmuxSessions' # DOMAIN tmuxSessions => cmd.ctor = "ok"

\* C37: the new and commit commands call the repository's work-unit
\* constructor only when the engine has no session for (current repository,
\* name): if a session already exists they create no work unit and fail, if
\* the constructor fails they create no terminal session, and the terminal
\* session is created only after the work unit was created.
C37_WorkUnitBeforeSession ==
    [][NewWorkUnitInOrder]_vars

\* The command found a session for the work unit, skipped the constructor
\* and failed in NewSession.
C37_Witness ==
    /\ cmd.form \in { "new", "commit" }
    /\ cmd.pc = "exit"
    /\ cmd.err
    /\ cmd.ctor = "none"
    /\ last.op = "NewSession"
    /\ Session(cmd.repo, cmd.workUnit) # NilSession

\* ------------------------------------------- the rename command

\* rename(newName) up to state.New: the current repository and the current
\* session, either of which may be missing.
RunRename ==
    /\ cmd.pc = "idle"
    /\ ~constructed
    /\ \E repoOk \in BOOLEAN, repo \in Repositories, newName \in WorkUnits,
          sesh \in Live(tmuxSessions) \cup { NoSession } :
        LET c == [NoCommand EXCEPT !.form = "rename", !.workUnit = newName] IN
        cmd' = IF ~repoOk \/ sesh = NoSession
               THEN Returned(c, TRUE)
               ELSE [c EXCEPT !.pc = "state", !.repo = repo, !.sesh = sesh]
    /\ CommandOnly

\* state.New in rename.
RenameState ==
    /\ cmd.pc = "state"
    /\ cmd.form = "rename"
    /\ New
    /\ cmd' = IF last'.err THEN Returned(cmd, TRUE) ELSE [cmd EXCEPT !.pc = "repo"]
    /\ UNCHANGED probes

\* rename: read the session's display name, then rename the work unit of
\* the repository when the State has no session for the new name.
RenameWorkUnit ==
    /\ cmd.pc = "repo"
    /\ \E nameOk \in BOOLEAN, renameOk \in BOOLEAN :
        LET c == [cmd EXCEPT !.old = tmuxSessions[cmd.sesh].name] IN
        cmd' = IF ~nameOk
               THEN Returned(cmd, TRUE)
               ELSE IF Session(cmd.repo, cmd.workUnit) # NilSession
               THEN [c EXCEPT !.pc = "session"]
               ELSE IF renameOk
               THEN [c EXCEPT !.pc = "session", !.didRepo = TRUE]
               ELSE Returned(c, TRUE)
    /\ CommandOnly

\* rename: state.RenameSession(repo, oldName, newName) and the return of the
\* command.
RenameTmux ==
    /\ cmd.pc = "session"
    /\ cmd.form = "rename"
    /\ RenameSession(cmd.repo, cmd.old, cmd.workUnit)
    /\ cmd' = Returned([cmd EXCEPT !.didTmux = ~last'.err], last'.err)
    /\ UNCHANGED probes

NextRename ==
    \/ RunRename
    \/ RenameState
    \/ RenameWorkUnit
    \/ RenameTmux

SpecRename == Init /\ [][NextRename]_vars

\* C38: the rename command finishes with either both the current repository
\* work unit and the current terminal session renamed to the new name, or
\* neither of them renamed.
C38_RenameBothOrNeither ==
    (cmd.form = "rename" /\ cmd.pc = "exit") => (cmd.didRepo <=> cmd.didTmux)

\* ------------------------------------------- the display-menu command

\* Sessions on the server when the menu is asked for.
MaxMenuSessions == 3

\* The characters' order in string comparison, one token per entry.
Alphabet == << Delim, "a", "b", "git", "hg", "r1", "r2", "r3" >>

TokenRank(c) == CHOOSE i \in 1..Len(Alphabet) : Alphabet[i] = c

\* s < t as Go compares strings.
StrLess(s, t) ==
    \E i \in 1..(Len(s) + 1) :
        /\ \A j \in 1..(i-1) : j <= Len(t) /\ s[j] = t[j]
        /\ i <= Len(t)
        /\ i <= Len(s) => TokenRank(s[i]) < TokenRank(t[i])

\* repoCmp: by VCS, then by Repo.
RepoLess(m, n) ==
    \/ StrLess(m.VCS, n.VCS)
    \/ m.VCS = n.VCS /\ StrLess(m.Repo, n.Repo)

\* The order Repository.Sort puts work units in: parents first, with "b" the
\* parent of "a".
TopoSeq == << <<"b">>, <<"a">> >>

TopoLess(v, w) ==
    \E i, j \in 1..Len(TopoSeq) : i < j /\ TopoSeq[i] = v /\ TopoSeq[j] = w

\* The elements of S in the order of the pairs of before.
RECURSIVE Sorted(_, _)
Sorted(S, before) ==
    IF S = {} THEN << >>
    ELSE LET m == CHOOSE x \in S : \A y \in S \ {x} : << x, y >> \in before
         IN  << m >> \o Sorted(S \ {m}, before)

\* The group of one repository: the sessions whose work unit the repository
\* listed, as Sort orders them, then the other sessions by work unit name.
RepoGroup(k, listed) ==
    LET wus  == { n.WorkUnit : n \in { x \in DOMAIN sessionsByName : RepoNameOf(x) = k } }
        known == wus \cap listed
        other == wus \ listed
        topo == Sorted(known, { p \in known \X known : TopoLess(p[1], p[2]) })
        rest == Sorted(other, { p \in other \X other : StrLess(p[1], p[2]) })
        entry(wu, unknownToRepo) ==
            LET n == NewWorkUnitName(repos[k], wu) IN
            [name |-> SessionName(unqualifiedRepos, n),
             id |-> sessionsByName[[VCS |-> k.VCS, Repo |-> k.Repo, WorkUnit |-> wu]],
             unknownToRepo |-> unknownToRepo]
    IN  [i \in 1..Len(topo) |-> entry(topo[i], FALSE)]
        \o [i \in 1..Len(rest) |-> entry(rest[i], TRUE)]

\* The group of the sessions without a repository, by display name.
UnknownGroup ==
    LET keys  == DOMAIN unknownSessions
        names == Sorted(keys, { p \in keys \X keys : StrLess(p[1], p[2]) })
    IN  [i \in 1..Len(names) |->
            [name |-> names[i], id |-> unknownSessions[names[i]],
             unknownToRepo |-> FALSE]]

\* The groups before the current one is moved: the repositories in repoCmp
\* order, then the unknown sessions when there are any.
OrderedSessions(exists) ==
    LET keys == { RepoNameOf(n) : n \in DOMAIN sessionsByName }
        repoNames == Sorted(keys, { p \in keys \X keys : RepoLess(p[1], p[2]) })
    IN  [i \in 1..Len(repoNames) |-> RepoGroup(repoNames[i], exists[repoNames[i]])]
        \o (IF DOMAIN unknownSessions # {} THEN << UnknownGroup >> ELSE << >>)

hasCurrentSession(group, cur) == \E i \in 1..Len(group) : group[i].id = cur

\* The groups left in the order they were built in.
CurrentFirstSkipped(groups, cur) == groups

\* slices.SortStableFunc with TrueFirst: the groups holding the current
\* session, then the others, each in the order they had.
CurrentFirst(groups, cur) ==
    LET has(g) == hasCurrentSession(g, cur)
        hasNot(g) == ~hasCurrentSession(g, cur)
    IN  SelectSeq(groups, has) \o SelectSeq(groups, hasNot)

\* The keys of the menu entries.
MenuKeys == << "0", "1", "2", "3", "4" >>

MenuSpacer ==
    [spacer |-> TRUE, name |-> << >>, mark |-> "", key |-> "", id |-> NoSession]

MenuEntry(sesh, cur, key) ==
    [spacer |-> FALSE, name |-> sesh.name,
     mark |-> IF sesh.id = cur THEN "*" ELSE IF sesh.unknownToRepo THEN "?" ELSE " ",
     key |-> IF sesh.id = cur THEN "q" ELSE key,
     id |-> sesh.id]

\* The menu of the groups from the i-th on, used entries of the keys so far.
RECURSIVE MenuFrom(_, _, _, _)
MenuFrom(groups, i, used, cur) ==
    IF i > Len(groups) THEN << >>
    ELSE (IF i > 1 THEN << MenuSpacer >> ELSE << >>)
         \o [j \in 1..Len(groups[i]) |->
                MenuEntry(groups[i][j], cur, MenuKeys[used + j])]
         \o MenuFrom(groups, i + 1, used + Len(groups[i]), cur)

\* createMenu after state.New, where exists gives the work units every
\* repository lists.
Menu(cur, exists) == MenuFrom(CurrentFirst(OrderedSessions(exists), cur), 1, 0, cur)

\* Servers with up to MaxMenuSessions sessions.
MenuServers ==
    UNION { { tm \in [0..(k-1) -> [name : InitNames, path : InitDirs, dead : {FALSE}]] :
                \A i, j \in 0..(k-1) :
                    i < j => NameRank(tm[i].name) < NameRank(tm[j].name) } :
            k \in 1..MaxMenuSessions }

InitMenu ==
    /\ tmuxSessions \in MenuServers
    /\ nextSessionID = Cardinality(DOMAIN tmuxSessions)
    /\ constructed = FALSE
    /\ sessions = {}
    /\ sessionsByName = Empty
    /\ sessionsByID = Empty
    /\ unqualifiedRepos = Empty
    /\ repos = Empty
    /\ unknownSessions = Empty
    /\ failedDirs = {}
    /\ calls = 0
    /\ faultyCalls = 0
    /\ last = NoCall("none")
    /\ cmd = NoCommand
    /\ probes = NoProbes

\* displayMenu up to createMenu: the current session and the current client.
RunDisplayMenu ==
    /\ cmd.pc = "idle"
    /\ ~constructed
    /\ \E sesh \in Live(tmuxSessions) \cup { NoSession }, clientOk \in BOOLEAN :
        LET c == [NoCommand EXCEPT !.form = "display-menu"] IN
        cmd' = IF sesh = NoSession \/ ~clientOk
               THEN Returned(c, TRUE)
               ELSE [c EXCEPT !.pc = "state", !.sesh = sesh]
    /\ CommandOnly

\* state.New in createMenu.
CreateMenuState ==
    /\ cmd.pc = "state"
    /\ cmd.form = "display-menu"
    /\ New
    /\ cmd' = IF last'.err THEN Returned(cmd, TRUE) ELSE [cmd EXCEPT !.pc = "menu"]
    /\ UNCHANGED probes

\* createMenu after state.New: every repository lists and sorts its work
\* units, either of which may fail.
CreateMenu ==
    /\ cmd.pc = "menu"
    /\ \E exists \in [DOMAIN repos -> SUBSET WorkUnits],
          listOk \in BOOLEAN, sortOk \in BOOLEAN :
        cmd' = IF DOMAIN repos # {} /\ (~listOk \/ ~sortOk)
               THEN Returned(cmd, TRUE)
               ELSE [cmd EXCEPT !.pc = "display", !.exists = exists,
                                !.menu = Menu(cmd.sesh, exists)]
    /\ CommandOnly

\* curClient.DisplayMenu(menu) and the return of the command.
DisplayMenu ==
    /\ cmd.pc = "display"
    /\ \E displayOk \in BOOLEAN : cmd' = Returned(cmd, ~displayOk)
    /\ CommandOnly

NextMenu ==
    \/ RunDisplayMenu
    \/ CreateMenuState
    \/ CreateMenu
    \/ DisplayMenu

SpecMenu == InitMenu /\ [][NextMenu]_vars

\* The positions of the menu that hold a session.
MenuEntries == { i \in 1..Len(cmd.menu) : ~cmd.menu[i].spacer }

\* The index key of the session at menu position i, when it has one.
Indexed(i) == \E n \in DOMAIN sessionsByName : sessionsByName[n] = cmd.menu[i].id

IndexKey(i) == CHOOSE n \in DOMAIN sessionsByName : sessionsByName[n] = cmd.menu[i].id

\* The group of the sessions no repository was found for.
NoRepoName == [VCS |-> << >>, Repo |-> << >>]

\* The group the session at menu position i belongs to.
GroupOf(i) == IF Indexed(i) THEN RepoNameOf(IndexKey(i)) ELSE NoRepoName

\* The repository of the session at position i listed its work unit.
WorkUnitExists(i) ==
    Indexed(i) /\ IndexKey(i).WorkUnit \in cmd.exists[GroupOf(i)]

HoldsCurrent(g) ==
    \E i \in MenuEntries : GroupOf(i) = g /\ cmd.menu[i].id = cmd.sesh

\* Group g is listed before the different group h.
GroupBefore(g, h) ==
    \/ HoldsCurrent(g)
    \/ /\ ~HoldsCurrent(h)
       /\ \/ h = NoRepoName
          \/ g # NoRepoName /\ RepoLess(g, h)

\* The two sessions of one repository group at positions i < j are in order.
InGroupOrder(i, j) ==
    /\ \A k \in i..j : ~cmd.menu[k].spacer
    /\ Indexed(i) =>
        /\ (WorkUnitExists(i) /\ WorkUnitExists(j))
               => TopoLess(IndexKey(i).WorkUnit, IndexKey(j).WorkUnit)
        /\ ~WorkUnitExists(i)
               => /\ ~WorkUnitExists(j)
                  /\ StrLess(IndexKey(i).WorkUnit, IndexKey(j).WorkUnit)

\* C39: createMenu lists the group that contains the current session first
\* and the other groups in (VCS, Repo) order with the unknown-sessions group
\* after the repository groups; inside a repository group the sessions whose
\* work unit exists come in the repository's topological order, followed by
\* the sessions whose work unit does not exist in name order; one spacer
\* separates consecutive groups.
C39_MenuOrder ==
    (cmd.form = "display-menu" /\ cmd.pc = "display") =>
        /\ \A s \in Range(sessionsByName) \cup Range(unknownSessions) :
               \E i \in MenuEntries : cmd.menu[i].id = s
        /\ \A i, j \in MenuEntries :
               i < j =>
                   IF GroupOf(i) = GroupOf(j)
                   THEN InGroupOrder(i, j)
                   ELSE GroupBefore(GroupOf(i), GroupOf(j))
        /\ \A k \in 1..Len(cmd.menu) :
               cmd.menu[k].spacer =>
                   /\ 1 < k /\ k < Len(cmd.menu)
                   /\ ~cmd.menu[k-1].spacer /\ ~cmd.menu[k+1].spacer
                   /\ GroupOf(k-1) # GroupOf(k+1)
        /\ \A k \in 1..(Len(cmd.menu) - 1) :
               (~cmd.menu[k].spacer /\ ~cmd.menu[k+1].spacer)
                   => GroupOf(k) = GroupOf(k+1)

\* A menu of three groups: the current session is an unknown one, and its
\* group stands before the groups of two repositories.
C39_Witness ==
    /\ cmd.form = "display-menu"
    /\ cmd.pc = "display"
    /\ Len(cmd.menu) = 5
    /\ GroupOf(1) = NoRepoName
    /\ cmd.menu[1].id = cmd.sesh
    /\ RepoLess(GroupOf(3), GroupOf(5))

====
